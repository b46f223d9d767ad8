---------------------------- MODULE DurableStore ----------------------------
(***************************************************************************)
(* DurableStore (src/network/durable_store.cpp): one directory, several    *)
(* coordinator processes that may try to open it, and the commit of one    *)
(* revision as the steps between which the process can die.                *)
(*                                                                         *)
(* A sealed record is named by the digest of its bytes, so the record is   *)
(* its own identity here.  The pending file has a fresh random name: what  *)
(* a dead writer leaves there is never read, so only the pending file of   *)
(* the running commit is state.  A file may be damaged while a process     *)
(* runs or between two of them; a damaged file never hashes to its name.   *)
(*                                                                         *)
(* A definition marked (mutant) is the next one with a plausible bug; the  *)
(* model never uses it, it shows that a property can fail.                 *)
(***************************************************************************)
EXTENDS Naturals, FiniteSets

CONSTANTS
  Process,          \* processes that try to open the store
  Payload,          \* encoded coordinator states
  Nothing,          \* the empty payload of a store that was never committed to
  Nobody,           \* no process holds the lock
  MaxStoreRevision  \* UINT64_MAX

ASSUME StoreAssumption ==
  MaxStoreRevision \in Nat /\ Nobody \notin Process /\ Nothing \notin Payload

Record == [revision : 1..MaxStoreRevision, payload : Payload]
Fresh == [revision |-> 0, payload |-> Nothing]

VARIABLES
  head,          \* what CURRENT names: the record published last, Fresh if none
  head_damaged,  \* CURRENT is missing or unreadable although it was published
  records,       \* the sealed records
  damaged,       \* those among them whose bytes were changed
  lock,          \* the process whose handle keeps writer.lock exclusive
  state,         \* per process: "closed", "open", "failed" or "refused"
  known,         \* revision and identity an open process keeps in memory
  attempt,       \* the commit of the lock's holder: its step and its record
  acknowledged   \* history: the record of the last commit that returned true

disk == <<head, head_damaged, records, damaged>>
vars == <<disk, lock, state, known, attempt, acknowledged>>

Idle == [step |-> "idle", record |-> Fresh]
Step == {"write_record", "seal_record", "write_head", "publish_head", "acknowledge"}
Attempt == {Idle} \cup [step : Step, record : Record]

StoreInit ==
  /\ head = Fresh /\ head_damaged = FALSE
  /\ records = {} /\ damaged = {}
  /\ lock = Nobody
  /\ state = [p \in Process |-> "closed"]
  /\ known = Fresh
  /\ attempt = Idle
  /\ acknowledged = Fresh

-----------------------------------------------------------------------------
(* open() *)

HeadMissing == head = Fresh \/ head_damaged

\* (mutant) a missing CURRENT always means a new store
no_sealed_records_assumed == TRUE

no_sealed_records == records = {}

\* read_head and read_record accept: CURRENT is intact and the record it names
\* has the digest and the revision CURRENT gives.
HeadReadable == ~HeadMissing /\ head \in records \ damaged

Opens == HeadReadable \/ (HeadMissing /\ no_sealed_records)

\* (mutant) the lock is not exclusive
OpenShared(p) ==
  /\ state[p] = "closed"
  /\ lock' = p
  /\ IF Opens
     THEN /\ state' = [state EXCEPT ![p] = "open"]
          /\ known' = IF HeadReadable THEN head ELSE Fresh
     ELSE state' = [state EXCEPT ![p] = "refused"] /\ UNCHANGED known
  /\ UNCHANGED <<disk, attempt, acknowledged>>

\* Taking the lock is the first step: a second process is refused by it.  A
\* process whose open() fails afterwards keeps the handle until it exits.
Open(p) ==
  /\ state[p] = "closed" /\ lock = Nobody
  /\ lock' = p
  /\ IF Opens
     THEN /\ state' = [state EXCEPT ![p] = "open"]
          /\ known' = IF HeadReadable THEN head ELSE Fresh
     ELSE state' = [state EXCEPT ![p] = "refused"] /\ UNCHANGED known
  /\ UNCHANGED <<disk, attempt, acknowledged>>

-----------------------------------------------------------------------------
(* commit() and its publish() *)

\* (mutant) the revision is not advanced
BeginSameRevision(p, payload) ==
  /\ state[p] = "open" /\ attempt = Idle
  /\ known.revision < MaxStoreRevision
  /\ attempt' = [step |-> "write_record",
                 record |-> [revision |-> known.revision, payload |-> payload]]
  /\ UNCHANGED <<disk, lock, state, known, acknowledged>>

Begin(p, payload) ==
  /\ state[p] = "open" /\ attempt = Idle
  /\ known.revision < MaxStoreRevision
  /\ attempt' = [step |-> "write_record",
                 record |-> [revision |-> known.revision + 1, payload |-> payload]]
  /\ UNCHANGED <<disk, lock, state, known, acknowledged>>

Committing(p, step) == state[p] = "open" /\ attempt.step = step

Proceed(step) == attempt' = [attempt EXCEPT !.step = step]

WriteRecord(p) ==
  /\ Committing(p, "write_record") /\ Proceed("seal_record")
  /\ UNCHANGED <<disk, lock, state, known, acknowledged>>

\* (mutant) the head is published over a record that was not sealed
seal_record_skipped(p) ==
  /\ Committing(p, "seal_record")
  /\ Proceed("write_head")
  /\ UNCHANGED <<disk, lock, state, known, acknowledged>>

\* A prior unacknowledged attempt may have sealed the identical record.
seal_record(p) ==
  /\ Committing(p, "seal_record")
  /\ attempt.record \notin damaged
  /\ records' = records \cup {attempt.record}
  /\ Proceed("write_head")
  /\ UNCHANGED <<head, head_damaged, damaged, lock, state, known, acknowledged>>

WriteHead(p) ==
  /\ Committing(p, "write_head") /\ Proceed("publish_head")
  /\ UNCHANGED <<disk, lock, state, known, acknowledged>>

Selected == head' = attempt.record /\ head_damaged' = FALSE

PublishHead(p) ==
  /\ Committing(p, "publish_head") /\ Selected /\ Proceed("acknowledge")
  /\ UNCHANGED <<records, damaged, lock, state, known, acknowledged>>

Acknowledge(p) ==
  /\ Committing(p, "acknowledge")
  /\ known' = attempt.record
  /\ acknowledged' = attempt.record
  /\ attempt' = Idle
  /\ UNCHANGED <<disk, lock, state>>

\* (mutant) a failed commit leaves the store open
FailOpen(p) ==
  /\ state[p] = "open" /\ attempt.step \in Step \ {"acknowledge"}
  /\ attempt' = Idle
  /\ \/ UNCHANGED <<head, head_damaged>>
     \/ attempt.step = "publish_head" /\ Selected
  /\ UNCHANGED <<records, damaged, lock, state, known, acknowledged>>

\* Any file operation may fail; a replaced head may be in place although its
\* write-through rename reported an error.
Fail(p) ==
  /\ state[p] = "open" /\ attempt.step \in Step \ {"acknowledge"}
  /\ state' = [state EXCEPT ![p] = "failed"]
  /\ attempt' = Idle
  /\ \/ UNCHANGED <<head, head_damaged>>
     \/ attempt.step = "publish_head" /\ Selected
  /\ UNCHANGED <<records, damaged, lock, known, acknowledged>>

-----------------------------------------------------------------------------
(* The environment *)

\* The process exits or is killed; the system closes its handles.
Exit(p) ==
  /\ state[p] # "closed"
  /\ state' = [state EXCEPT ![p] = "closed"]
  /\ lock' = Nobody
  /\ attempt' = Idle
  /\ UNCHANGED <<disk, known, acknowledged>>

DamageHead ==
  /\ head # Fresh /\ ~head_damaged /\ head_damaged' = TRUE
  /\ UNCHANGED <<head, records, damaged, lock, state, known, attempt, acknowledged>>

DamageRecord(record) ==
  /\ record \in records \ damaged /\ damaged' = damaged \cup {record}
  /\ UNCHANGED <<head, head_damaged, records, lock, state, known, attempt, acknowledged>>

StoreNext ==
  \/ \E p \in Process :
       \/ Open(p) \/ Exit(p) \/ Fail(p)
       \/ \E payload \in Payload : Begin(p, payload)
       \/ WriteRecord(p) \/ seal_record(p) \/ WriteHead(p) \/ PublishHead(p)
       \/ Acknowledge(p)
  \/ DamageHead
  \/ \E record \in records : DamageRecord(record)

StoreSpec == StoreInit /\ [][StoreNext]_vars

-----------------------------------------------------------------------------
(* Properties *)

\* Type invariant: the directory holds records, and only the lock's holder has
\* the store open.
StoreTypeOK ==
  /\ head \in Record \cup {Fresh} /\ head_damaged \in BOOLEAN
  /\ records \subseteq Record /\ damaged \subseteq records
  /\ lock \in Process \cup {Nobody}
  /\ state \in [Process -> {"closed", "open", "failed", "refused"}]
  /\ known \in Record \cup {Fresh}
  /\ attempt \in Attempt
  /\ acknowledged \in Record \cup {Fresh}

\* "One writer": a second process cannot create a split brain, and the process
\* that holds the lock is the only one that is not closed.
OneWriter == \A p \in Process : state[p] # "closed" <=> lock = p

\* Only the CURRENT marker chooses what recovery reads, and it never chooses
\* anything older than, or different from, what commit() acknowledged; after a
\* failure or a crash it may be a later revision that nobody was told about.
AcknowledgedSurvives ==
  head = acknowledged \/ head.revision > acknowledged.revision

\* CURRENT never names a record that is not sealed: unless a file is damaged
\* from outside, every store that acknowledged a commit opens again, whatever
\* step of a later commit the process died at.
AcknowledgedReopens ==
  acknowledged # Fresh /\ ~head_damaged /\ damaged = {} => HeadReadable

\* "Never reinterpret a damaged acknowledged universe as a fresh empty one":
\* once a commit was acknowledged, no process opens the store empty.
NeverReinitialized ==
  [][\A p \in Process :
       state[p] = "closed" /\ state'[p] = "open" /\ acknowledged # Fresh
         => known' = head /\ known'.revision >= acknowledged.revision]_vars

\* The store is one durable register: see DurableRegister.  The register is
\* open while the lock's holder is a process whose open() succeeded.
Writer == IF lock # Nobody /\ state[lock] \in {"open", "failed"} THEN lock ELSE Nobody

Register == INSTANCE DurableRegister WITH
  value <- head, writer <- Writer, view <- known, Limit <- MaxStoreRevision

ImplementsRegister == Register!Spec
=============================================================================
