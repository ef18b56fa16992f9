--------------------------- MODULE MCProcessGroup ---------------------------
(***************************************************************************)
(* ProcessGroup on a leader and three possible descendants, of which one   *)
(* changes user.                                                           *)
(***************************************************************************)
EXTENDS ProcessGroup

\* Two descendants of our own: one that the leader forks, and one that another
\* descendant forks while the group is being stopped.  The stranger is any one's
\* child, and may be all that is left.  Two cancellations: one in the first await
\* and one in an await that is repeated.
MCMaxCancels == 2
=============================================================================
