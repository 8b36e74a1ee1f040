--------------------------- MODULE MCSessionStore ---------------------------
(***************************************************************************)
(* Model-checking instance of SessionStore: only the requests of Used are  *)
(* made, so that sessions can have different numbers of tabs.              *)
(***************************************************************************)
EXTENDS SessionStore

CONSTANTS First, Second,    \* two sessions
          Tab, OtherTab     \* two tabs

\* The first session has two tabs, the second one has one.
Used == {<<First, Tab>>, <<First, OtherTab>>, <<Second, Tab>>}

MCNext ==
    \/ Query \/ Tick \/ Restart
    \/ \E x \in Used : Handler(x[1], x[2])

MCSpec == Init /\ [][MCNext]_vars /\ WF_vars(Query)

=============================================================================
