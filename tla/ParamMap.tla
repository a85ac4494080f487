------------------------------ MODULE ParamMap ------------------------------
(***************************************************************************)
(* What a parameter layer promises its callers (lib/parameters/ParamLayer):*)
(* a map from parameters to values, in memory that may run out.  A store   *)
(* or a reset takes effect at once and for its own parameter only, and     *)
(* tells the caller so.  Only the store of a parameter that is not in the  *)
(* map may be refused, only when the layer was full, grew, and got no      *)
(* memory or was filled again meanwhile, and then the caller is told.      *)
(***************************************************************************)
CONSTANTS Params, Values, Threads, Unset, None

VARIABLES map,     \* the value of each parameter in the layer, or Unset
          full,    \* there is no room for another parameter
          want,    \* the operation each thread is in, or None
          growth,  \* whether it found the layer full and grows it, and got no memory
          result   \* what its last store returned; TRUE after a reset

mapVars == <<map, full, want, growth, result>>

Init ==
    /\ map = [p \in Params |-> Unset]
    /\ full = FALSE
    /\ want = [t \in Threads |-> None]
    /\ growth = [t \in Threads |-> "none"]
    /\ result = [t \in Threads |-> TRUE]

Call(t) ==
    /\ want[t] = None
    /\ \E p \in Params, v \in Values \cup {Unset} :
         want' = [want EXCEPT ![t] = [param |-> p, value |-> v]]
    /\ UNCHANGED <<map, full, growth, result>>

Answer(t, r) ==
    /\ want' = [want EXCEPT ![t] = None]
    /\ growth' = [growth EXCEPT ![t] = "none"]
    /\ result' = [result EXCEPT ![t] = r]

\* Only a new parameter takes room, and only one that goes makes room.
Apply(t) ==
    /\ want[t] # None
    /\ growth[t] # "failed"
    /\ LET old == map[want[t].param]
           v == want[t].value
       IN  \/ (old = Unset <=> v = Unset) /\ UNCHANGED full
           \/ old = Unset /\ v # Unset /\ ~full /\ full' \in BOOLEAN
           \/ old # Unset /\ v = Unset /\ full' = FALSE
    /\ map' = [map EXCEPT ![want[t].param] = want[t].value]
    /\ Answer(t, TRUE)

\* A store of a new parameter that finds no room begins to grow the layer ...
Enlarge(t) ==
    /\ want[t] # None
    /\ want[t].value # Unset
    /\ map[want[t].param] = Unset
    /\ full
    /\ growth[t] = "none"
    /\ growth' = [growth EXCEPT ![t] = "begun"]
    /\ UNCHANGED <<map, full, want, result>>

\* ... which gets it memory ...
Room(t) ==
    /\ growth[t] = "begun"
    /\ full' = FALSE
    /\ UNCHANGED <<map, want, growth, result>>

\* ... or none ...
NoMemory(t) ==
    /\ growth[t] = "begun"
    /\ growth' = [growth EXCEPT ![t] = "failed"]
    /\ UNCHANGED <<map, full, want, result>>

\* ... and when there is none, or others have used all it got, the caller is told.
Refuse(t) ==
    /\ growth[t] = "failed" \/ (growth[t] = "begun" /\ full)
    /\ Answer(t, FALSE)
    /\ UNCHANGED <<map, full>>

Next ==
    \E t \in Threads :
        Call(t) \/ Apply(t) \/ Enlarge(t) \/ Room(t) \/ NoMemory(t) \/ Refuse(t)

Spec == Init /\ [][Next]_mapVars
=============================================================================
