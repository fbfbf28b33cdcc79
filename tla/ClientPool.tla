----------------------------- MODULE ClientPool -----------------------------
(***************************************************************************)
(* What the Server promises about the Client objects it owns, without the  *)
(* slot table that keeps the promise: an accepted connection is owned by   *)
(* the server until it has been closed, only then is the object deleted,   *)
(* never while the server is serving it, and a closed one is deleted       *)
(* sooner or later unless the process stops or the server, serving a      *)
(* client, hangs.                                                          *)
(***************************************************************************)
CONSTANTS Clients, NULL

VARIABLES
  life,      \* [Clients -> {"free", "open", "closed"}]
  owned,     \* the client objects the server can still reach
  serving,   \* the client the server is working on, or NULL
  hung,      \* the server never returns to the client it is serving
  stopped    \* the daemon has shut down or died

vars == <<life, owned, serving, hung, stopped>>

Working == ~stopped /\ ~hung

Init ==
  /\ life = [c \in Clients |-> "free"]
  /\ owned = {}
  /\ serving = NULL
  /\ hung = FALSE
  /\ stopped = FALSE

Admit(c) ==
  /\ Working
  /\ life[c] = "free"
  /\ life' = [life EXCEPT ![c] = "open"]
  /\ owned' = owned \cup {c}
  /\ UNCHANGED <<serving, hung, stopped>>

\* Also while the server hangs.
Leave(c) ==
  /\ ~stopped
  /\ life[c] = "open"
  /\ life' = [life EXCEPT ![c] = "closed"]
  /\ UNCHANGED <<owned, serving, hung, stopped>>

Serve(c) ==
  /\ Working
  /\ serving = NULL
  /\ c \in owned
  /\ serving' = c
  /\ UNCHANGED <<life, owned, hung, stopped>>

Served ==
  /\ Working
  /\ serving # NULL
  /\ serving' = NULL
  /\ UNCHANGED <<life, owned, hung, stopped>>

Hang ==
  /\ Working
  /\ serving # NULL
  /\ hung' = TRUE
  /\ UNCHANGED <<life, owned, serving, stopped>>

Reap(c) ==
  /\ Working
  /\ c \in owned \ {serving}
  /\ life[c] = "closed"
  /\ life' = [life EXCEPT ![c] = "free"]
  /\ owned' = owned \ {c}
  /\ UNCHANGED <<serving, hung, stopped>>

\* The daemon stops. An orderly stop first deletes clients nobody is serving.
Stop ==
  /\ Working
  /\ stopped' = TRUE
  /\ \E gone \in SUBSET (owned \ {serving}) :
       /\ owned' = owned \ gone
       /\ life' = [c \in Clients |-> IF c \in gone THEN "free" ELSE life[c]]
  /\ UNCHANGED <<serving, hung>>

Next ==
  \/ \E c \in Clients : Admit(c) \/ Leave(c) \/ Serve(c) \/ Reap(c)
  \/ Served \/ Hang
  \/ Stop

Safety == Init /\ [][Next]_vars

Spec == Safety /\ \A c \in Clients : SF_vars(Reap(c))
=============================================================================
