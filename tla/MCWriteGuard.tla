---------------------------- MODULE MCWriteGuard ----------------------------
(* Two archives a Hub may upload: an empty one, and one whose node and      *)
(* probe have history at the latest stamp.                                  *)
EXTENDS WriteGuard

Old ==
  [node |-> {1}, traffic |-> {1}, task |-> {1}, assign |-> {}, metric |-> {<<1, MaxStamp>>},
   metric_hour |-> {}, ping |-> {<<1, 1, MaxStamp>>}, ping_hour |-> {<<1, 1>>},
   next_node |-> 1, next_task |-> 1]

MCArchives == {Empty, Old}
=============================================================================
