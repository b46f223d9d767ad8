---------------------------- MODULE MCLedgerStore ----------------------------
(* Small instances of the location ledger and of the store that keeps it, one  *)
(* at a time.                                                                 *)
(*   transfers, globals   LocationLedger with two homes, as in the program.   *)
(*              Avatars and global systems share only the leases they are      *)
(*              placed under, so they are explored apart: two players and no   *)
(*              global system, or a system, one checkpoint more and no player  *)
(*   store      DurableStore with two processes                               *)
EXTENDS LocationLedger, DurableStore, TLC

VARIABLE focus

AvatarNext == (LocationNext \/ TransferNext) /\ \A l \in DOMAIN ledger'.locations : ledger'.locations[l].checkpoint <= 2
SystemNext == (LocationNext \/ GlobalNext) /\ ledger'.avatars = ledger.avatars

MCInit == Init /\ StoreInit /\ focus \in {"transfers", "globals", "store"}
MCNext ==
  /\ UNCHANGED focus
  /\ CASE focus = "transfers" -> AvatarNext /\ UNCHANGED vars
       [] focus = "globals" -> SystemNext /\ UNCHANGED vars
       [] focus = "store" -> StoreNext /\ UNCHANGED ledger
MCSpec == MCInit /\ [][MCNext]_<<ledger, vars, focus>>

\* Players, workers and contents are interchangeable, and so are the homes.
Symmetry == UNION {Permutations(S) : S \in {Location, Player, Worker, Content}}
=============================================================================
