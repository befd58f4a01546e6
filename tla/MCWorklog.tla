------------------------------ MODULE MCWorklog -----------------------------
(***************************************************************************)
(* Worklog for TLC: one of the states it may start in, up to renaming: an  *)
(* active client with one project that has an entry and one that does not  *)
(* exist or is empty, and the sets that a .cfg cannot write.               *)
(***************************************************************************)
EXTENDS Worklog, TLC

CONSTANTS FirstProject, FirstName, FirstDate

MCInit ==
  /\ Init
  /\ \A c \in Clients : client[c].columns.name = FirstName /\ client[c].status # "deleted"
  /\ \A p \in Projects : project[p].columns = [name |-> FirstName, archived |-> FALSE]
  /\ Exists(project[FirstProject]) = \E c \in Clients : Present(client[c])
  /\ \A t \in Entries :
       /\ entry[t].status # "locked"
       /\ entry[t].columns.project = FirstProject
       /\ entry[t].status = "absent" => entry[t].columns.date = FirstDate

MCSpec == MCInit /\ [][Next]_vars

Alike == Permutations(Requests)
=============================================================================
