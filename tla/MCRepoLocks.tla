---------------------------- MODULE MCRepoLocks ----------------------------
(* RepoLocks on small instances. *)
EXTENDS RepoLocks, TLC

\* Threads are interchangeable: nothing names one.
Threads == Permutations(Clients)

\* Every route that opens its write with RepoState::writer or revert_writer.
WriterRoutes == {"write", "background", "revert", "start", "commit", "abort", "flush"}

\* All of them, POST /log/prune and POST /labels included.
AllRoutes == Kinds
=============================================================================
