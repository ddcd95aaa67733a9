----------------------------- MODULE Admission -----------------------------
(***************************************************************************)
(* What core.SSLConn promises its users about the native handle and the    *)
(* duplicated descriptor, independently of locks and counters: a call is   *)
(* admitted only while the connection is live, and the resources are       *)
(* released once, after the connection was stopped and after the last      *)
(* admitted call has left.  SSLConn.tla implements this specification.     *)
(***************************************************************************)
CONSTANT Threads

VARIABLES phase,   \* "live", "stopped" or "released"
          active   \* the calls that may be inside native code or select(2)

avars == <<phase, active>>

TypeOK == /\ phase \in {"live", "stopped", "released"}
          /\ active \subseteq Threads

Init == /\ phase = "live"
        /\ active = {}

Admit(t) == /\ phase = "live"
            /\ t \notin active
            /\ active' = active \union {t}
            /\ UNCHANGED phase

Leave(t) == /\ t \in active
            /\ active' = active \ {t}
            /\ UNCHANGED phase

Stop == /\ phase = "live"
        /\ phase' = "stopped"
        /\ UNCHANGED active

Release == /\ phase = "stopped"
           /\ active = {}
           /\ phase' = "released"
           /\ UNCHANGED active

Next == \/ \E t \in Threads : Admit(t) \/ Leave(t)
        \/ Stop
        \/ Release

Spec == Init /\ [][Next]_avars
=============================================================================
