------------------------------ MODULE TimerSet ------------------------------
(* What the timer list of iperf3 promises: a set of timers with due times,   *)
(* and passes that fire those that were due when the pass began, in the      *)
(* order of their due times. A pass that comes late finds a periodic timer   *)
(* due again after it has fired: others overtake it, and it is left for the  *)
(* next pass. The end of the omit period starts other timers anew; it may    *)
(* end the pass, and then leaves others that are due for the next one.       *)
EXTENDS Naturals

CONSTANTS Kinds,     \* what the timers are for
          Mover,     \* the timer whose firing starts others anew
          Never      \* the due time of a timer that is not set

VARIABLES due,       \* due[k]: when the timer for k fires next
          clock,     \* the time
          pass,      \* the time when the pass began, 0 between two passes
          fired      \* the timers fired in this pass

setVars == <<due, clock, pass, fired>>

Pending == {k \in Kinds : due[k] # Never}

SetInit == due = [k \in Kinds |-> Never] /\ clock = 0 /\ pass = 0 /\ fired = {}

Advance == clock' > clock /\ UNCHANGED <<due, pass, fired>>

Restart == clock' = 0 /\ Pending = {} /\ UNCHANGED <<due, pass, fired>>

Set(k) ==
  /\ k \notin Pending
  /\ due'[k] # Never /\ due'[k] > clock
  /\ due' = [due EXCEPT ![k] = due'[k]]
  /\ UNCHANGED <<clock, pass, fired>>

Clear == due' = [k \in Kinds |-> Never] /\ UNCHANGED <<clock, pass, fired>>

BeginPass == pass' = clock /\ UNCHANGED <<due, clock, fired>>

Fire(k) ==
  /\ k \in Pending /\ due[k] <= pass
  /\ \A j \in Pending : due[j] < due[k] => j \in fired
  /\ due'[k] = Never \/ due'[k] > due[k]
  /\ \A j \in Kinds \ {k} :
       due'[j] = due[j] \/ (k = Mover /\ j \in Pending /\ due'[j] > pass)
  /\ fired' = fired \cup {k} /\ UNCHANGED <<clock, pass>>

EndPass ==
  /\ Mover \in fired \/ \A k \in Pending : due[k] <= pass => k \in fired
  /\ pass' = 0 /\ fired' = {} /\ UNCHANGED <<due, clock>>

SetNext ==
  \/ Advance \/ Restart \/ Clear \/ BeginPass \/ EndPass
  \/ \E k \in Kinds : Set(k) \/ Fire(k)

SetSpec == SetInit /\ [][SetNext]_setVars
=============================================================================
