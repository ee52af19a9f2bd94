--------------------------- MODULE MCRaftStorage ---------------------------
(***************************************************************************)
(* A node whose cluster has a leader in term 1, which replicates one entry *)
(* or none before it is replaced, and a leader in term 2, which removes a  *)
(* node and then commits a command.                                        *)
(***************************************************************************)
EXTENDS RaftStorage, TLC

Zero      == [term |-> 0, kind |-> "command", id |-> 0]
EntryA    == [term |-> 1, kind |-> "command", id |-> 1]
EntryB    == [term |-> 2, kind |-> "remove", id |-> 3]
EntryC    == [term |-> 2, kind |-> "command", id |-> 2]
Logs      == 1 :> << EntryA >> @@ 2 :> << EntryB, EntryC >>
Committed == 1 :> 0 @@ 2 :> 2
=============================================================================
