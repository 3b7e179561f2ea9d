-------------------------- MODULE QueryClientProofs --------------------------
(* The console and the messages of QueryClient, for any number of queries, retries and
   reloads: Inv says what the console's status depends on, MessageInv where the tokens
   of a query are that it received: in its message, in the buffer, or in the copy that
   a reload reads. *)
EXTENDS QueryClient, FiniteSetTheorems, TLAPS

USE ClientAssumption

\* The types of what the console's status depends on.
ControlTypeOK ==
    /\ pc \in [Queries -> {"idle", "fetch", "read", "sleep", "end"}]
    /\ attempt \in [Queries -> 0..MaxRetries]
    /\ signal \in [Queries -> Controllers \cup {NoController}]
    /\ controller \in Controllers \cup {NoController}
    /\ aborted \subseteq Controllers /\ timedOut \subseteq aborted
    /\ status \in {"idle", "thinking", "streaming", "error"}
    /\ {crossed, silenced, freed} \subseteq BOOLEAN
    /\ asleep \subseteq Queries

\* The controller of a submission or of a retry is a new one: those in use or aborted are
\* of attempts that were made.
Made(k) == pc[k[1]] # "idle" /\ k[2] <= attempt[k[1]]
ControllersMade == \A k \in aborted \cup {controller} : k # NoController => Made(k)

\* While queries have not run over each other there is one, the controller is its own,
\* and an aborted one was the timer's if the console is still busy: the user's cancel
\* sets it idle, and nothing sets it busy again under an aborted controller.
OnePerConsole ==
    ~crossed =>
        /\ \A p, q \in Alive : p = q
        /\ \A q \in Queries : pc[q] \in {"fetch", "read"} => signal[q] = controller
        /\ Busy /\ Alive # {} /\ controller \in aborted => controller \in timedOut

\* A running query keeps the console busy until something frees it.
BusyWhileAlive ==
    /\ ~freed => \A p, q \in Alive : p = q
    /\ ~freed /\ Alive # {} => Busy
    /\ Alive # {} => controller # NoController

\* A query cancelled in its sleep will find its controller aborted.
SleepersCancelled ==
    \A q \in asleep : pc[q] = "end" \/ (pc[q] = "sleep" /\ controller \in aborted)

Inv ==
    /\ ControlTypeOK /\ ControllersMade
    /\ OnePerConsole /\ BusyWhileAlive /\ BusyMeansRunning /\ SleepersCancelled

LEMMA ControllerFacts ==
    /\ NoController \notin Controllers
    /\ \A k \in Controllers : k[1] \in Queries /\ k[2] \in Nat
    /\ \A q \in Queries, a \in 0..MaxRetries + 1 :
          <<q, a>> \in Controllers /\ <<q, a>>[1] = q /\ <<q, a>>[2] = a
BY DEF Controllers, NoController, Queries

LEMMA SubmitKeeps == ASSUME Inv, NEW q \in Queries, Submit(q) PROVE Inv'
<1> DEFINE k == <<q, 0>>
<1>1. /\ ~Busy /\ pc[q] = "idle" /\ aborted' = aborted \cup ({controller} \ {NoController})
      /\ controller' = k /\ signal' = [signal EXCEPT ![q] = k] /\ status' = "thinking"
      /\ pc' = [pc EXCEPT ![q] = "fetch"] /\ crossed' = (crossed \/ Alive # {} \/ raf # 0)
      /\ asleep' = {} /\ UNCHANGED <<attempt, timedOut, silenced, freed>>
  BY DEF Submit
<1>2. k \in Controllers /\ k[1] = q /\ k[2] = 0 /\ k # NoController
  BY ControllerFacts
<1>3. k \notin aborted \cup {controller}
  BY <1>1, <1>2 DEF Inv, ControllersMade, Made
<1>4. k \notin aborted'
  BY <1>1, <1>3
<1>5. q \in Alive' /\ \A p \in Queries : p # q => pc'[p] = pc[p]
  BY <1>1 DEF Alive, Inv, ControlTypeOK
<1>6. \A p \in Alive' : p = q \/ p \in Alive
  BY <1>5 DEF Alive
<1>7. Busy' /\ (~freed => Alive = {})
  BY <1>1 DEF Busy, Inv, BusyWhileAlive
<1>8. ControlTypeOK'
  BY <1>1, <1>2 DEF Inv, ControlTypeOK
<1>9. ControllersMade'
  <2>1. \A c \in aborted' : c \in aborted \cup {controller} /\ c # NoController /\ c[1] \in Queries
    BY <1>1, ControllerFacts DEF Inv, ControlTypeOK
  <2>2. \A c \in aborted' : Made(c)'
    BY <1>1, <1>5, <2>1 DEF Inv, ControlTypeOK, ControllersMade, Made
  <2>3. pc'[q] # "idle" /\ 0 <= attempt'[q]
    BY <1>1 DEF Inv, ControlTypeOK
  <2>4. Made(controller)'
    BY <1>1, <1>2, <2>3 DEF Made
  <2> QED BY <2>2, <2>4 DEF ControllersMade
<1>10. OnePerConsole'
  <2>1. ~crossed' => \A p \in Queries : pc'[p] \in {"fetch", "read"} => p = q
    BY <1>1, <1>5 DEF Alive
  <2>2. signal'[q] = controller'
    BY <1>1 DEF Inv, ControlTypeOK
  <2> QED BY <1>1, <1>4, <1>6, <2>1, <2>2 DEF OnePerConsole
<1>11. BusyWhileAlive' /\ BusyMeansRunning' /\ SleepersCancelled'
  BY <1>1, <1>2, <1>5, <1>6, <1>7 DEF BusyWhileAlive, BusyMeansRunning, SleepersCancelled
<1> QED BY <1>8, <1>9, <1>10, <1>11 DEF Inv

(***************************************************************************)
(* The steps of a query.                                                   *)
(***************************************************************************)
\* It goes on under a controller that nobody aborted.
LEMMA GoesOn ==
    ASSUME Inv, NEW q \in Queries, pc[q] \in {"fetch", "read", "sleep"}, q \notin asleep,
           NEW stage \in {"fetch", "read", "sleep"}, pc' = [pc EXCEPT ![q] = stage],
           attempt' \in [Queries -> 0..MaxRetries], \A p \in Queries : attempt[p] <= attempt'[p],
           signal' \in [Queries -> Controllers \cup {NoController}],
           \A p \in Queries \ {q} : signal'[p] = signal[p],
           ~crossed => controller \notin aborted /\ (stage \in {"fetch", "read"} => signal'[q] = controller),
           status' \in {"thinking", "streaming", status},
           UNCHANGED <<controller, aborted, timedOut, crossed, silenced, freed, asleep>>
    PROVE  Inv'
<1>1. pc \in [Queries -> {"idle", "fetch", "read", "sleep", "end"}]
  BY DEF Inv, ControlTypeOK
<1>2. pc'[q] = stage /\ \A p \in Queries : p # q => pc'[p] = pc[p]
  BY <1>1
<1>3. Alive' = Alive /\ q \in Alive
  BY <1>2 DEF Alive
<1>4. Busy => Busy'
  BY DEF Busy
<1>5. ControlTypeOK'
  BY <1>1 DEF Inv, ControlTypeOK
<1>6. ControllersMade'
  <2> SUFFICES ASSUME NEW k \in aborted \cup {controller}, k # NoController
               PROVE  pc'[k[1]] # "idle" /\ k[2] <= attempt'[k[1]]
    BY DEF ControllersMade, Made
  <2>1. k[1] \in Queries /\ k[2] \in Nat
    BY ControllerFacts DEF Inv, ControlTypeOK
  <2>2. pc[k[1]] # "idle" /\ k[2] <= attempt[k[1]]
    BY DEF Inv, ControllersMade, Made
  <2>3. attempt[k[1]] \in 0..MaxRetries /\ attempt'[k[1]] \in 0..MaxRetries
    BY <2>1 DEF Inv, ControlTypeOK
  <2>4. attempt[k[1]] <= attempt'[k[1]]
    BY <2>1
  <2> QED BY <1>2, <2>1, <2>2, <2>3, <2>4
<1>7. OnePerConsole'
  <2>1. ASSUME ~crossed, NEW p \in Queries, pc'[p] \in {"fetch", "read"} PROVE signal'[p] = controller
    BY <1>2, <2>1 DEF Inv, OnePerConsole
  <2> QED BY <1>3, <2>1 DEF Inv, OnePerConsole
<1>8. BusyWhileAlive'
  BY <1>3, <1>4 DEF Inv, BusyWhileAlive
<1>9. BusyMeansRunning' /\ SleepersCancelled'
  BY <1>2, <1>3 DEF Inv, BusyMeansRunning, SleepersCancelled
<1> QED BY <1>5, <1>6, <1>7, <1>8, <1>9 DEF Inv

\* It ends with a status, or without one when a timer aborted it.
LEMMA Ends ==
    ASSUME Inv, NEW q \in Queries, pc[q] \in {"fetch", "read", "sleep"},
           pc' = [pc EXCEPT ![q] = "end"],
           status' \in {"idle", "error"} \/ (status' = status /\ (crossed' \/ silenced' \/ ~Busy)),
           {crossed', silenced'} \subseteq BOOLEAN, crossed => crossed', silenced => silenced',
           UNCHANGED <<attempt, signal, controller, aborted, timedOut, freed, asleep>>
    PROVE  Inv'
<1>1. pc \in [Queries -> {"idle", "fetch", "read", "sleep", "end"}]
  BY DEF Inv, ControlTypeOK
<1>2. pc'[q] = "end" /\ \A p \in Queries : p # q => pc'[p] = pc[p]
  BY <1>1
<1>3. Alive' = Alive \ {q} /\ q \in Alive
  BY <1>2 DEF Alive
<1>4. ControlTypeOK'
  BY <1>1 DEF Inv, ControlTypeOK
<1>5. ControllersMade'
  <2>1. \A k \in aborted \cup {controller} : k # NoController => k[1] \in Queries
    BY ControllerFacts DEF Inv, ControlTypeOK
  <2> QED BY <1>2, <2>1 DEF Inv, ControllersMade, Made
<1>6. (~freed \/ ~crossed) => Alive' = {}
  BY <1>3 DEF Inv, OnePerConsole, BusyWhileAlive
<1>7. OnePerConsole'
  BY <1>2, <1>6 DEF Inv, OnePerConsole
<1>8. BusyWhileAlive'
  BY <1>3, <1>6 DEF Inv, BusyWhileAlive
<1>9. BusyMeansRunning'
  BY DEF BusyMeansRunning, Busy
<1>10. SleepersCancelled'
  BY <1>2 DEF Inv, SleepersCancelled
<1> QED BY <1>4, <1>5, <1>7, <1>8, <1>9, <1>10 DEF Inv

\* A query that waits for the server, under a controller nobody aborted.
LEMMA Served ==
    ASSUME Inv, NEW q \in Queries, pc[q] \in {"fetch", "read"}, signal[q] \notin aborted
    PROVE  q \notin asleep /\ (~crossed => controller \notin aborted)
BY DEF Inv, OnePerConsole, SleepersCancelled

LEMMA RetriedKeeps ==
    ASSUME Inv, NEW q \in Queries, pc[q] \in {"fetch", "read"}, signal[q] \notin aborted,
           attempt[q] < MaxRetries, Retried(q),
           UNCHANGED <<signal, controller, aborted, timedOut, freed, asleep>>
    PROVE  Inv'
<1>1. /\ pc' = [pc EXCEPT ![q] = "sleep"] /\ attempt' = [attempt EXCEPT ![q] = attempt[q] + 1]
      /\ status' = "thinking" /\ UNCHANGED <<crossed, silenced>>
  BY DEF Retried
<1>2. attempt \in [Queries -> 0..MaxRetries] /\ signal \in [Queries -> Controllers \cup {NoController}]
  BY DEF Inv, ControlTypeOK
<1>3. attempt' \in [Queries -> 0..MaxRetries] /\ \A p \in Queries : attempt[p] <= attempt'[p]
  BY <1>1, <1>2
<1> QED BY <1>1, <1>2, <1>3, Served, GoesOn

LEMMA EndsWithStatus ==
    ASSUME Inv, NEW q \in Queries, pc[q] \in {"fetch", "read"}, Finish(q) \/ GiveUp(q),
           UNCHANGED <<signal, controller, aborted, timedOut, freed, asleep>>
    PROVE  Inv'
<1>1. /\ pc' = [pc EXCEPT ![q] = "end"] /\ status' \in {"idle", "error"}
      /\ UNCHANGED <<attempt, crossed, silenced>>
  BY DEF Finish, GiveUp
<1>2. {crossed, silenced} \subseteq BOOLEAN
  BY DEF Inv, ControlTypeOK
<1> QED BY <1>1, <1>2, Ends

LEMMA ServerKeeps ==
    ASSUME Inv, NEW q \in Queries,
           Opens(q) \/ Declined(q) \/ Denied(q) \/ Fails(q) \/ Completes(q) \/ BreaksOff(q)
    PROVE  Inv'
<1>1. /\ pc[q] \in {"fetch", "read"} /\ signal[q] \notin aborted
      /\ UNCHANGED <<signal, controller, aborted, timedOut, freed, asleep>>
  BY DEF Opens, Declined, Denied, Fails, Completes, BreaksOff, others
<1>2. CASE Opens(q)
  <2>1. /\ pc' = [pc EXCEPT ![q] = "read"] /\ status' = "streaming"
        /\ UNCHANGED <<attempt, crossed, silenced>>
    BY <1>2 DEF Opens
  <2>2. /\ attempt \in [Queries -> 0..MaxRetries] /\ \A p \in Queries : attempt[p] <= attempt[p]
        /\ signal \in [Queries -> Controllers \cup {NoController}]
    BY DEF Inv, ControlTypeOK
  <2>3. ~crossed => signal[q] = controller
    BY <1>1 DEF Inv, OnePerConsole
  <2> QED BY <1>1, <2>1, <2>2, <2>3, Served, GoesOn
<1>3. CASE attempt[q] < MaxRetries /\ Retried(q)
  BY <1>1, <1>3, RetriedKeeps
<1>4. CASE Finish(q) \/ GiveUp(q)
  BY <1>1, <1>4, EndsWithStatus
<1> QED BY <1>2, <1>3, <1>4 DEF Declined, Denied, Fails, Completes, BreaksOff, Caught

\* A query that ends without a word was aborted by the timer, or the console is idle.
LEMMA SilentlyKeeps ==
    ASSUME Inv, NEW q \in Queries, pc[q] \in {"fetch", "read", "sleep"}, Silently(q),
           ~crossed => controller \in aborted,
           UNCHANGED <<signal, controller, aborted, timedOut, freed, asleep>>
    PROVE  Inv'
<1>1. /\ pc' = [pc EXCEPT ![q] = "end"] /\ crossed' = (crossed \/ pending # <<>>)
      /\ silenced' = (silenced \/ controller \in timedOut) /\ UNCHANGED <<attempt, status>>
  BY DEF Silently, store
<1>2. q \in Alive
  BY DEF Alive
<1>3. crossed' \/ silenced' \/ ~Busy
  BY <1>1, <1>2 DEF Inv, OnePerConsole
<1>4. {crossed', silenced'} \subseteq BOOLEAN
  BY <1>1 DEF Inv, ControlTypeOK
<1> QED BY <1>1, <1>3, <1>4, Ends

LEMMA WakeKeeps == ASSUME Inv, NEW q \in Queries, Wake(q) PROVE Inv'
<1>1. pc[q] = "sleep" /\ UNCHANGED <<controller, aborted, timedOut, freed, asleep>>
  BY DEF Wake, others
<1>2. CASE controller \in aborted /\ Silently(q) /\ UNCHANGED signal
  BY <1>1, <1>2, SilentlyKeeps
<1>3. CASE /\ controller \notin aborted /\ pc' = [pc EXCEPT ![q] = "fetch"]
           /\ signal' = [signal EXCEPT ![q] = controller]
           /\ UNCHANGED <<attempt, store, crossed, silenced>>
  <2>1. /\ attempt \in [Queries -> 0..MaxRetries] /\ \A p \in Queries : attempt[p] <= attempt[p]
        /\ signal \in [Queries -> Controllers \cup {NoController}]
        /\ controller \in Controllers \cup {NoController}
    BY DEF Inv, ControlTypeOK
  <2>2. q \notin asleep
    BY <1>1, <1>3 DEF Inv, SleepersCancelled
  <2>3. /\ signal' \in [Queries -> Controllers \cup {NoController}] /\ signal'[q] = controller
        /\ \A p \in Queries \ {q} : signal'[p] = signal[p]
    BY <1>3, <2>1
  <2> QED BY <1>1, <1>3, <2>1, <2>2, <2>3, GoesOn DEF store
<1> QED BY <1>2, <1>3 DEF Wake

\* After an abort the next attempt has a controller of its own.
LEMMA AbortsKeeps == ASSUME Inv, NEW q \in Queries, Aborts(q) PROVE Inv'
<1>1. /\ pc[q] \in {"fetch", "read"} /\ signal[q] \in aborted
      /\ UNCHANGED <<signal, aborted, timedOut, freed>>
  BY DEF Aborts, others
<1>2. CASE Silently(q) /\ UNCHANGED <<controller, asleep>>
  <2>1. ~crossed => controller \in aborted
    BY <1>1 DEF Inv, OnePerConsole
  <2> QED BY <1>1, <1>2, <2>1, SilentlyKeeps
<1>3. CASE /\ attempt[q] < MaxRetries /\ Retried(q) /\ asleep' = {}
           /\ controller' = <<q, attempt[q] + 1>>
  <2> DEFINE k == <<q, attempt[q] + 1>>
  <2>1. /\ pc' = [pc EXCEPT ![q] = "sleep"] /\ attempt' = [attempt EXCEPT ![q] = attempt[q] + 1]
        /\ status' = "thinking" /\ UNCHANGED <<crossed, silenced>>
    BY <1>3 DEF Retried
  <2>2. /\ pc \in [Queries -> {"idle", "fetch", "read", "sleep", "end"}]
        /\ attempt \in [Queries -> 0..MaxRetries] /\ attempt[q] + 1 \in 0..MaxRetries
    BY <1>3 DEF Inv, ControlTypeOK
  <2>3. k \in Controllers /\ k[1] = q /\ k[2] = attempt[q] + 1 /\ k # NoController
    BY <2>2, ControllerFacts
  <2>4. k \notin aborted
    BY <2>2, <2>3 DEF Inv, ControllersMade, Made
  <2>5. pc'[q] = "sleep" /\ \A p \in Queries : p # q => pc'[p] = pc[p]
    BY <2>1, <2>2
  <2>6. Alive' = Alive /\ q \in Alive /\ Busy'
    BY <1>1, <2>1, <2>5 DEF Alive, Busy
  <2>7. ControlTypeOK'
    BY <1>1, <1>3, <2>1, <2>2, <2>3 DEF Inv, ControlTypeOK
  <2>8. ControllersMade'
    <3>1. ASSUME NEW c \in aborted PROVE Made(c)'
      <4>1. c[1] \in Queries /\ c[2] \in Nat /\ c # NoController
        BY ControllerFacts DEF Inv, ControlTypeOK
      <4>2. pc[c[1]] # "idle" /\ c[2] <= attempt[c[1]]
        BY <4>1 DEF Inv, ControllersMade, Made
      <4>3. attempt[c[1]] \in 0..MaxRetries /\ attempt'[c[1]] \in {attempt[c[1]], attempt[c[1]] + 1}
        BY <2>1, <2>2, <4>1
      <4> QED BY <2>5, <4>1, <4>2, <4>3 DEF Made
    <3>2. pc'[q] # "idle" /\ attempt'[q] = attempt[q] + 1 /\ attempt[q] + 1 \in Nat
      BY <2>1, <2>2, <2>5
    <3>3. Made(controller)'
      BY <1>3, <2>3, <3>2 DEF Made
    <3> QED BY <1>1, <3>1, <3>3 DEF ControllersMade
  <2>9. OnePerConsole'
    <3>1. ~crossed => \A p \in Queries : pc'[p] \notin {"fetch", "read"}
      BY <2>5, <2>6 DEF Alive, Inv, OnePerConsole
    <3> QED BY <1>1, <1>3, <2>1, <2>4, <2>6, <3>1 DEF Inv, OnePerConsole
  <2>10. BusyWhileAlive' /\ BusyMeansRunning' /\ SleepersCancelled'
    BY <1>1, <1>3, <2>3, <2>6 DEF Inv, BusyWhileAlive, BusyMeansRunning, SleepersCancelled
  <2> QED BY <2>7, <2>8, <2>9, <2>10 DEF Inv
<1> QED BY <1>2, <1>3 DEF Aborts

(***************************************************************************)
(* The user and the browser.                                               *)
(***************************************************************************)
\* The controller of the moment is aborted, by the user or by a timer.
LEMMA AbortedIsMade ==
    ASSUME Inv, aborted' = aborted \cup ({controller} \ {NoController}),
           UNCHANGED <<pc, attempt, controller>>
    PROVE  ControllersMade' /\ aborted' \subseteq Controllers
BY DEF Inv, ControllersMade, ControlTypeOK, Made

LEMMA AbortKeeps == ASSUME Inv, Abort PROVE Inv'
<1>1. /\ aborted' = aborted \cup ({controller} \ {NoController}) /\ status' = "idle"
      /\ freed' = (freed \/ Alive # {}) /\ asleep' = asleep \cup {q \in Alive : pc[q] = "sleep"}
      /\ UNCHANGED <<pc, attempt, signal, controller, timedOut, crossed, silenced>>
  BY DEF Abort
<1>2. Alive' = Alive /\ Alive \subseteq Queries /\ ~Busy'
  BY <1>1 DEF Alive, Busy
<1>3. ControlTypeOK'
  BY <1>1, <1>2, AbortedIsMade DEF Inv, ControlTypeOK
<1>4. OnePerConsole' /\ BusyWhileAlive' /\ BusyMeansRunning'
  BY <1>1, <1>2 DEF Inv, OnePerConsole, BusyWhileAlive, BusyMeansRunning
<1>5. Alive # {} => controller \in aborted'
  BY <1>1 DEF Inv, BusyWhileAlive
<1>6. SleepersCancelled'
  BY <1>1, <1>5 DEF Inv, SleepersCancelled
<1> QED BY <1>1, <1>3, <1>4, <1>6, AbortedIsMade DEF Inv

LEMMA TimeoutKeeps == ASSUME Inv, NEW t \in timers, Timeout(t) PROVE Inv'
<1>1. /\ aborted' = aborted \cup ({controller} \ {NoController})
      /\ timedOut' = timedOut \cup ({controller} \ {NoController})
      /\ UNCHANGED <<pc, attempt, signal, controller, status, crossed, silenced, freed, asleep>>
  BY DEF Timeout, store
<1>2. Alive' = Alive /\ Busy' = Busy
  BY <1>1 DEF Alive, Busy
<1>3. ControlTypeOK'
  BY <1>1, AbortedIsMade DEF Inv, ControlTypeOK
<1>4. OnePerConsole'
  BY <1>1, <1>2 DEF Inv, OnePerConsole, BusyWhileAlive
<1>5. BusyWhileAlive' /\ BusyMeansRunning' /\ SleepersCancelled'
  BY <1>1, <1>2 DEF Inv, BusyWhileAlive, BusyMeansRunning, SleepersCancelled
<1> QED BY <1>1, <1>3, <1>4, <1>5, AbortedIsMade DEF Inv

\* The console goes idle under the queries that run.
LEMMA IdleKeeps ==
    ASSUME Inv, status' = "idle", freed' = (freed \/ Alive # {}),
           crossed' \in BOOLEAN, crossed => crossed',
           UNCHANGED <<pc, attempt, signal, controller, aborted, timedOut, silenced, asleep>>
    PROVE  Inv'
<1>1. Alive' = Alive /\ ~Busy'
  BY DEF Alive, Busy
<1>2. ControlTypeOK' /\ ControllersMade'
  BY DEF Inv, ControlTypeOK, ControllersMade, Made
<1>3. OnePerConsole' /\ BusyWhileAlive' /\ BusyMeansRunning' /\ SleepersCancelled'
  BY <1>1 DEF Inv, OnePerConsole, BusyWhileAlive, BusyMeansRunning, SleepersCancelled
<1> QED BY <1>2, <1>3 DEF Inv

LEMMA ReloadKeeps == ASSUME Inv, Reload PROVE Inv'
<1>1. /\ pc' = [q \in Queries |-> IF pc[q] = "idle" THEN "idle" ELSE "end"]
      /\ controller' = NoController /\ status' = "idle"
      /\ UNCHANGED <<attempt, signal, aborted, timedOut, crossed, silenced, freed, asleep>>
  BY DEF Reload
<1>2. Alive' = {} /\ ~Busy'
  BY <1>1 DEF Alive, Busy
<1>3. ControlTypeOK'
  BY <1>1 DEF Inv, ControlTypeOK
<1>4. ControllersMade'
  <2>1. \A k \in aborted : k # NoController /\ k[1] \in Queries
    BY ControllerFacts DEF Inv, ControlTypeOK
  <2> QED BY <1>1, <2>1 DEF Inv, ControllersMade, Made
<1>5. \A q \in Queries : pc'[q] \notin {"fetch", "read"}
  BY <1>1
<1>6. SleepersCancelled'
  BY <1>1 DEF Inv, SleepersCancelled, ControlTypeOK
<1>7. OnePerConsole' /\ BusyWhileAlive' /\ BusyMeansRunning'
  BY <1>1, <1>2, <1>5 DEF Inv, OnePerConsole, BusyWhileAlive, BusyMeansRunning
<1> QED BY <1>3, <1>4, <1>6, <1>7 DEF Inv

LEMMA AsideKeeps ==
    ASSUME Inv, UNCHANGED <<pc, attempt, signal, controller, aborted, timedOut, status, crossed,
                            silenced, freed, asleep>>
    PROVE  Inv'
<1>1. Alive' = Alive /\ Busy' = Busy
  BY DEF Alive, Busy
<1>2. ControlTypeOK' /\ ControllersMade'
  BY DEF Inv, ControlTypeOK, ControllersMade, Made
<1>3. OnePerConsole' /\ BusyWhileAlive' /\ BusyMeansRunning' /\ SleepersCancelled'
  BY <1>1 DEF Inv, OnePerConsole, BusyWhileAlive, BusyMeansRunning, SleepersCancelled
<1> QED BY <1>2, <1>3 DEF Inv

LEMMA InitHasInv == ASSUME Init PROVE Inv
<1>1. Alive = {} /\ ~Busy
  BY DEF Init, Alive, Busy
<1>2. ControlTypeOK
  <2>1. 0 \in 0..MaxRetries
    BY ClientAssumption
  <2>2. /\ pc \in [Queries -> {"idle", "fetch", "read", "sleep", "end"}]
        /\ attempt \in [Queries -> 0..MaxRetries]
        /\ signal \in [Queries -> Controllers \cup {NoController}]
    BY <2>1 DEF Init
  <2>3. crossed = FALSE /\ silenced = FALSE /\ freed = FALSE
    BY DEF Init
  <2>4. {crossed, silenced, freed} \subseteq BOOLEAN
    BY <2>3, Zenon
  <2>5. /\ aborted \subseteq Controllers /\ timedOut \subseteq aborted /\ asleep \subseteq Queries
        /\ controller = NoController /\ status = "idle"
    BY DEF Init
  <2> QED BY <2>2, <2>4, <2>5 DEF ControlTypeOK
<1>3. ControllersMade /\ OnePerConsole /\ BusyWhileAlive /\ BusyMeansRunning /\ SleepersCancelled
  BY <1>1 DEF Init, ControllersMade, OnePerConsole, BusyWhileAlive, BusyMeansRunning, SleepersCancelled
<1> QED BY <1>2, <1>3 DEF Inv

LEMMA StepKeepsInv == ASSUME Inv, [Next]_vars PROVE Inv'
<1>1. ASSUME NEW q \in Queries, Submit(q) PROVE Inv'
  BY <1>1, SubmitKeeps
<1>2. ASSUME NEW q \in Queries, Step(q) PROVE Inv'
  <2>1. CASE Opens(q) \/ Declined(q) \/ Denied(q) \/ Fails(q) \/ Completes(q) \/ BreaksOff(q)
    BY <2>1, ServerKeeps
  <2>2. CASE Aborts(q)
    BY <2>2, AbortsKeeps
  <2>3. CASE Wake(q)
    BY <2>3, WakeKeeps
  <2>4. CASE Receive(q)
    BY <2>4, AsideKeeps DEF Receive, store
  <2> QED BY <1>2, <2>1, <2>2, <2>3, <2>4 DEF Step
<1>3. ASSUME NEW t \in timers, Timeout(t) PROVE Inv'
  BY <1>3, TimeoutKeeps
<1>4. CASE Abort
  BY <1>4, AbortKeeps
<1>5. CASE NewConversation \/ IdleTimeout
  <2>1. /\ status' = "idle" /\ freed' = (freed \/ Alive # {})
        /\ (crossed' = crossed \/ crossed' = (crossed \/ Alive # {}))
        /\ UNCHANGED <<pc, attempt, signal, controller, aborted, timedOut, silenced, asleep>>
    BY <1>5 DEF NewConversation, IdleTimeout, refs
  <2>2. crossed \in BOOLEAN
    BY Zenon DEF Inv, ControlTypeOK
  <2>3. crossed' \in BOOLEAN /\ (crossed => crossed')
    <3>1. CASE crossed' = crossed
      BY <2>2, <3>1
    <3>2. CASE crossed' = (crossed \/ Alive # {})
      BY <2>2, <3>2, Zenon
    <3> QED BY <2>1, <3>1, <3>2, Zenon
  <2> QED BY <2>1, <2>3, IdleKeeps
<1>6. CASE Reload
  BY <1>6, ReloadKeeps
<1>7. CASE Frame \/ UNCHANGED vars
  BY <1>7, AsideKeeps DEF Frame, vars, refs, store, history
<1> QED BY <1>1, <1>2, <1>3, <1>4, <1>5, <1>6, <1>7 DEF Next

\* The console's books are kept whatever users, servers, timers and reloads do.
THEOREM Invariance == Spec => []Inv
BY InitHasInv, StepKeepsInv, PTL DEF Spec

LEMMA InvIsEnough == ASSUME Inv PROVE ConsoleConsistent
<1>1. OneAtATime
  <2> SUFFICES ASSUME ~freed PROVE Cardinality(Alive) <= 1 /\ Cardinality(Alive) \in Nat
    BY DEF OneAtATime
  <2>1. CASE Alive = {}
    BY <2>1, FS_EmptySet
  <2>2. CASE Alive # {}
    <3>1. PICK q \in Alive : Alive = {q}
      BY <2>2 DEF Inv, BusyWhileAlive
    <3> QED BY <3>1, FS_Singleton
  <2> QED BY <2>1, <2>2
<1>2. CancelSticks
  BY DEF Inv, SleepersCancelled, CancelSticks
<1> QED BY <1>1, <1>2 DEF Inv, ConsoleConsistent

\* Queries run one at a time unless the status went idle under one, the console is busy
\* only while one runs, unless a timer ended it, and a query cancelled between two attempts
\* is not sent again; also of queries that ran over each other.
THEOREM ConsoleStaysConsistent == Spec => []ConsoleConsistent
BY Invariance, InvIsEnough, PTL

(***************************************************************************)
(* The messages.                                                           *)
(***************************************************************************)
\* Ids grow along a list and do not exceed the store's counter.
Growing(list) ==
    /\ \A i, j \in DOMAIN list : i < j => list[i].id < list[j].id
    /\ \A i \in DOMAIN list : list[i].id \in 1..seq

Counts ==
    /\ msg \in [Queries -> Nat] /\ timers \subseteq Token
    /\ pending \in Seq(Token) /\ got \in [Queries -> Seq(Token)]
    /\ raf \in Nat /\ frame \in BOOLEAN /\ (frame => raf # 0)
    /\ idleTimers \in Nat /\ idleTimers <= Cardinality({q \in Queries : pc[q] = "end"})
    /\ cut \subseteq Queries
    /\ news \in 0..MaxNews /\ reloads \in 0..MaxReloads

Named == \A q \in Alive : msg[q] # 0

ListsOK ==
    /\ messages \in Seq(Message) /\ saved \in Seq(Message)
    /\ seq \in Nat /\ seq >= 1
    /\ Growing(messages) /\ Growing(saved)
    /\ \A i \in DOMAIN saved : ~saved[i].streaming

\* A query that was not submitted has received nothing and has no message.
Unasked ==
    \A q \in Queries : pc[q] = "idle" =>
        /\ got[q] = <<>>
        /\ \A i \in DOMAIN messages : messages[i].of # q
        /\ \A i \in DOMAIN saved : saved[i].of # q

\* While queries have not run over each other, a running query's message is streaming,
\* and what it lacks of the tokens received is in the buffer; what a frame will flush goes
\* to that message.
Filling ==
    ~crossed => \A q \in Alive :
        /\ raf \in {0, msg[q]}
        /\ \A i \in DOMAIN messages :
              /\ messages[i].of = q <=> messages[i].id = msg[q]
              /\ messages[i].of = q => messages[i].streaming
              /\ messages[i].of = q /\ q \notin cut => messages[i].content \o pending = got[q]
        /\ \A i \in DOMAIN saved : saved[i].of # q

\* The finished message of a query that ended.
Whole(m) == m.content \in {got[m.of], Append(got[m.of], ErrorText)}
Settled(list) ==
    \A i \in DOMAIN list : \A q \in Queries :
        list[i].of = q /\ pc[q] = "end" /\ q \notin cut /\ ~list[i].streaming => Whole(list[i])
Ended == ~crossed => Settled(messages) /\ Settled(saved) /\ (Alive = {} => pending = <<>>)

\* A frame is coming for what is in the buffer, and a frame that was noted is coming.
Coming ==
    ~crossed /\ cut = {} => /\ pending # <<>> => frame
                            /\ Alive # {} /\ raf # 0 => frame

MessageInv == Inv /\ Counts /\ Named /\ ListsOK /\ Unasked /\ Filling /\ Ended /\ Coming

-----------------------------------------------------------------------------
(* Lists of messages. *)

\* The ranks of the positions I are the numbers up to their count, each once, in
\* their order.
LEMMA Ranks ==
    ASSUME NEW n \in Nat, NEW I \in SUBSET (1..n)
    PROVE  /\ IsFiniteSet(I) /\ Cardinality(I) \in Nat /\ Cardinality(I) <= n
           /\ \A i \in I : Rank(I, i) \in 1..Cardinality(I)
           /\ \A i, j \in I : i < j => Rank(I, i) < Rank(I, j)
           /\ \A k \in 1..Cardinality(I) : \E i \in I : Rank(I, i) = k
<1>1. IsFiniteSet(1..n) /\ Cardinality(1..n) = n
  BY FS_Interval
<1>2. IsFiniteSet(I) /\ Cardinality(I) \in Nat /\ Cardinality(I) <= n
  BY <1>1, FS_Subset, FS_CardinalityType
<1> DEFINE Up(i) == {j \in I : j <= i}
<1>3. ASSUME NEW i \in I
      PROVE  IsFiniteSet(Up(i)) /\ Cardinality(Up(i)) \in 1..Cardinality(I)
  <2>1. Up(i) \in SUBSET I /\ i \in Up(i)
    OBVIOUS
  <2>2. IsFiniteSet(Up(i)) /\ Cardinality(Up(i)) <= Cardinality(I) /\ Cardinality(Up(i)) \in Nat
    BY <1>2, <2>1, FS_Subset, FS_CardinalityType
  <2>3. Cardinality(Up(i)) # 0
    BY <2>1, <2>2, FS_EmptySet
  <2> QED BY <1>2, <2>2, <2>3
<1>4. ASSUME NEW i \in I, NEW j \in I, i < j
      PROVE  Cardinality(Up(i)) < Cardinality(Up(j))
  <2>1. Up(i) \in SUBSET Up(j) /\ j \in Up(j) /\ j \notin Up(i)
    <3>1. i \in Int /\ j \in Int /\ \A k \in I : k \in Int
      OBVIOUS
    <3>2. \A k \in I : k <= i => k <= j
      BY <1>4, <3>1
    <3>3. j <= j /\ ~(j <= i)
      BY <1>4, <3>1
    <3> QED BY <3>2, <3>3
  <2>2. Cardinality(Up(i)) <= Cardinality(Up(j)) /\ Cardinality(Up(i)) # Cardinality(Up(j))
    BY <1>3, <2>1, FS_Subset
  <2> QED BY <1>2, <1>3, <2>2
<1> DEFINE f == [i \in I |-> Cardinality(Up(i))]
           m == Cardinality(I)
<1>5. IsFiniteSet(1..m) /\ Cardinality(1..m) = m
  BY <1>2, FS_Interval
<1>6. f \in Injection(I, 1..m)
  <2>1. f \in [I -> 1..m]
    BY <1>3
  <2>2. ASSUME NEW i \in I, NEW j \in I, f[i] = f[j] PROVE i = j
    <3>1. i < j \/ j < i \/ i = j
      OBVIOUS
    <3>2. Cardinality(Up(i)) = Cardinality(Up(j)) /\ Cardinality(Up(i)) \in Nat
      BY <1>3, <2>2
    <3> QED BY <1>4, <3>1, <3>2
  <2> HIDE DEF f
  <2> QED BY <2>1, <2>2 DEF Injection, IsInjective
<1>7. f \in Surjection(I, 1..m)
  BY <1>2, <1>5, <1>6, FS_Injection
<1>8. \A k \in 1..m : \E i \in I : Cardinality(Up(i)) = k
  BY <1>7 DEF Surjection
<1> QED BY <1>2, <1>3, <1>4, <1>8 DEF Rank

\* What is picked are the entries at the positions, each once.
LEMMA PickedFacts ==
    ASSUME NEW S, NEW s \in Seq(S), NEW I \in SUBSET DOMAIN s
    PROVE  LET p == Picked(s, I) IN
           /\ p \in Seq(S) /\ Len(p) <= Len(s)
           /\ \A k \in DOMAIN p : \E i \in I : p[k] = s[i] /\ Rank(I, i) = k
           /\ \A i \in I : Rank(I, i) \in DOMAIN p /\ p[Rank(I, i)] = s[i]
<1> DEFINE m == Cardinality(I)
           Nth(k) == CHOOSE i \in I : Rank(I, i) = k
           p == Picked(s, I)
<1>1. Len(s) \in Nat /\ DOMAIN s = 1..Len(s)
  OBVIOUS
<1>2. /\ m \in Nat /\ m <= Len(s)
      /\ \A i \in I : Rank(I, i) \in 1..m
      /\ \A i, j \in I : i < j => Rank(I, i) < Rank(I, j)
      /\ \A k \in 1..m : \E i \in I : Rank(I, i) = k
  BY <1>1, Ranks
<1>3. \A k \in 1..m : Nth(k) \in I /\ Rank(I, Nth(k)) = k
  BY <1>2
<1>4. \A i \in I : Nth(Rank(I, i)) = i
  <2> SUFFICES ASSUME NEW i \in I PROVE Nth(Rank(I, i)) = i
    OBVIOUS
  <2> DEFINE j == Nth(Rank(I, i))
  <2>1. j \in I /\ Rank(I, j) = Rank(I, i) /\ Rank(I, i) \in Nat
    BY <1>2, <1>3
  <2> HIDE DEF j
  <2>2. i \in Nat /\ j \in Nat
    BY <1>1, <2>1
  <2>3. ~(i < j) /\ ~(j < i)
    BY <1>2, <2>1
  <2> QED BY <2>2, <2>3 DEF j
<1>5. p = [k \in 1..m |-> s[Nth(k)]]
  BY DEF Picked
<1> HIDE DEF m, Nth, p
<1>6. p \in Seq(S) /\ Len(p) = m /\ DOMAIN p = 1..m
  BY <1>1, <1>2, <1>3, <1>5
<1>7. ASSUME NEW k \in DOMAIN p PROVE \E i \in I : p[k] = s[i] /\ Rank(I, i) = k
  BY <1>3, <1>5, <1>6
<1>8. ASSUME NEW i \in I PROVE Rank(I, i) \in DOMAIN p /\ p[Rank(I, i)] = s[i]
  BY <1>2, <1>4, <1>5, <1>6
<1> QED BY <1>2, <1>6, <1>7, <1>8 DEF p

\* What a list keeps when texts are added to messages or messages are closed.
SameMessages(n, list) ==
    /\ n \in Seq(Message) /\ Len(n) = Len(list) /\ DOMAIN n = DOMAIN list
    /\ \A i \in DOMAIN list : n[i].id = list[i].id /\ n[i].of = list[i].of

LEMMA AppendedFacts ==
    ASSUME NEW list \in Seq(Message), NEW id, NEW text \in Seq(Token \cup {ErrorText})
    PROVE  LET n == Appended(list, id, text) IN
           /\ SameMessages(n, list)
           /\ \A i \in DOMAIN list :
                 /\ n[i].streaming = list[i].streaming
                 /\ n[i].content = IF list[i].id = id THEN list[i].content \o text
                                                      ELSE list[i].content
<1> DEFINE n == Appended(list, id, text)
<1>1. Len(list) \in Nat /\ DOMAIN list = 1..Len(list)
  OBVIOUS
<1>2. n = [i \in DOMAIN list |->
              IF list[i].id = id THEN [list[i] EXCEPT !.content = list[i].content \o text]
                                 ELSE list[i]]
  BY DEF Appended
<1> HIDE DEF n
<1>3. ASSUME NEW i \in DOMAIN list
      PROVE  /\ n[i] \in Message /\ n[i].id = list[i].id /\ n[i].of = list[i].of
             /\ n[i].streaming = list[i].streaming
             /\ n[i].content = IF list[i].id = id THEN list[i].content \o text
                                                  ELSE list[i].content
  <2>1. list[i] \in Message
    OBVIOUS
  <2>2. CASE list[i].id = id
    <3> DEFINE c == list[i].content \o text
    <3>1. list[i].content \in Seq(Token \cup {ErrorText})
      BY <2>1 DEF Message
    <3>2. c \in Seq(Token \cup {ErrorText})
      BY <3>1
    <3>3. n[i] = [list[i] EXCEPT !.content = c]
      BY <1>2, <2>2
    <3>4. c = list[i].content \o text
      OBVIOUS
    <3> HIDE DEF c
    <3> QED BY <2>1, <2>2, <3>2, <3>3, <3>4 DEF Message
  <2>3. CASE list[i].id # id
    BY <1>2, <2>1, <2>3
  <2> QED BY <2>2, <2>3
<1>4. n \in Seq(Message) /\ Len(n) = Len(list) /\ DOMAIN n = DOMAIN list
  <2>1. DOMAIN n = DOMAIN list /\ n = [i \in 1..Len(list) |-> n[i]]
    BY <1>1, <1>2
  <2>2. \A i \in 1..Len(list) : n[i] \in Message
    BY <1>1, <1>3
  <2> QED BY <1>1, <2>1, <2>2
<1> QED BY <1>3, <1>4 DEF n, SameMessages

LEMMA FinalizedFacts ==
    ASSUME NEW list \in Seq(Message), NEW id
    PROVE  LET n == Finalized(list, id) IN
           /\ SameMessages(n, list)
           /\ \A i \in DOMAIN list :
                 /\ list[i].id = id => ~n[i].streaming
                 /\ list[i].id # id => n[i].streaming = list[i].streaming
                 /\ n[i].content = list[i].content
<1> DEFINE n == Finalized(list, id)
<1>1. Len(list) \in Nat /\ DOMAIN list = 1..Len(list)
  OBVIOUS
<1>2. n = [i \in DOMAIN list |->
              IF list[i].id = id THEN [list[i] EXCEPT !.streaming = FALSE] ELSE list[i]]
  BY DEF Finalized
<1> HIDE DEF n
<1>3. ASSUME NEW i \in DOMAIN list
      PROVE  /\ n[i] \in Message /\ n[i].id = list[i].id /\ n[i].of = list[i].of
             /\ list[i].id = id => ~n[i].streaming
             /\ list[i].id # id => n[i].streaming = list[i].streaming
             /\ n[i].content = list[i].content
  <2>1. list[i] \in Message
    OBVIOUS
  <2>2. CASE list[i].id = id
    BY <1>2, <2>1, <2>2 DEF Message
  <2>3. CASE list[i].id # id
    BY <1>2, <2>1, <2>3
  <2> QED BY <2>2, <2>3
<1>4. n \in Seq(Message) /\ Len(n) = Len(list) /\ DOMAIN n = DOMAIN list
  <2>1. DOMAIN n = DOMAIN list /\ n = [i \in 1..Len(list) |-> n[i]]
    BY <1>1, <1>2
  <2>2. \A i \in 1..Len(list) : n[i] \in Message
    BY <1>1, <1>3
  <2> QED BY <1>1, <2>1, <2>2
<1> QED BY <1>3, <1>4 DEF n, SameMessages

\* What is kept across reloads are messages of the list, in its order.
LEMMA PersistentFacts ==
    ASSUME NEW list \in Seq(Message)
    PROVE  LET p == Persistent(list) IN
           /\ p \in Seq(Message)
           /\ \A k \in DOMAIN p : ~p[k].streaming /\ \E i \in DOMAIN list : p[k] = list[i]
           /\ (\A i, j \in DOMAIN list : i < j => list[i].id < list[j].id)
                 => \A k, l \in DOMAIN p : k < l => p[k].id < p[l].id
<1> DEFINE I == {i \in DOMAIN list : ~list[i].streaming}
           p == Picked(list, I)
<1>1. I \in SUBSET DOMAIN list
  OBVIOUS
<1>2. \A i \in I : i \in DOMAIN list /\ ~list[i].streaming
  OBVIOUS
<1>3. p = Persistent(list)
  BY DEF Persistent
<1> HIDE DEF I
<1>4. /\ p \in Seq(Message)
      /\ \A k \in DOMAIN p : \E i \in I : p[k] = list[i] /\ Rank(I, i) = k
  BY <1>1, PickedFacts
<1>5. Len(list) \in Nat /\ DOMAIN list = 1..Len(list)
  OBVIOUS
<1>6. \A i, j \in I : i < j => Rank(I, i) < Rank(I, j)
  BY <1>1, <1>5, Ranks
<1>7. \A i \in I : Rank(I, i) \in Nat
  <2>1. Cardinality(I) \in Nat /\ \A i \in I : Rank(I, i) \in 1..Cardinality(I)
    BY <1>1, <1>5, Ranks
  <2> QED BY <2>1
<1> HIDE DEF p
<1>8. ASSUME \A i, j \in DOMAIN list : i < j => list[i].id < list[j].id,
             NEW k \in DOMAIN p, NEW l \in DOMAIN p, k < l
      PROVE  p[k].id < p[l].id
  <2>1. PICK i \in I : p[k] = list[i] /\ Rank(I, i) = k
    BY <1>4
  <2>2. PICK j \in I : p[l] = list[j] /\ Rank(I, j) = l
    BY <1>4
  <2>3. i \in Nat /\ j \in Nat
    BY <1>1, <1>5
  <2>4. ~(j < i) /\ i # j
    <3>1. k \in Nat /\ l \in Nat /\ ~(l < k) /\ k # l
      BY <1>7, <1>8, <2>1, <2>2
    <3> QED BY <1>6, <2>1, <2>2, <3>1
  <2>5. i < j
    BY <2>3, <2>4
  <2> QED BY <1>2, <1>8, <2>1, <2>2, <2>5
<1>9. \A k \in DOMAIN p : ~p[k].streaming /\ \E i \in DOMAIN list : p[k] = list[i]
  BY <1>2, <1>4
<1> QED BY <1>3, <1>4, <1>8, <1>9

(***************************************************************************)
(* The steps.                                                              *)
(***************************************************************************)
EndedQueries == {q \in Queries : pc[q] = "end"}

\* A list with one more entry.
LEMMA Appending ==
    ASSUME NEW S, NEW s \in Seq(S), NEW e \in S
    PROVE  LET n == Append(s, e) IN
           /\ n \in Seq(S) /\ DOMAIN n = 1..(Len(s) + 1)
           /\ \A i \in 1..(Len(s) + 1) : n[i] = IF i = Len(s) + 1 THEN e ELSE s[i]
OBVIOUS

LEMMA QuerySets ==
    ASSUME NEW E \in SUBSET Queries
    PROVE  IsFiniteSet(E) /\ Cardinality(E) \in Nat /\ Cardinality(E) <= Cardinality(Queries)
<1>1. IsFiniteSet(Queries)
  BY FS_Interval DEF Queries
<1> QED BY <1>1, FS_Subset, FS_CardinalityType

LEMMA EndedCount ==
    /\ IsFiniteSet(EndedQueries) /\ Cardinality(EndedQueries) \in Nat
    /\ Cardinality(EndedQueries) <= Cardinality(Queries)
<1>1. EndedQueries \in SUBSET Queries
  BY DEF EndedQueries
<1> QED BY <1>1, QuerySets

\* A step of timers and controllers, or of a query that goes on.
LEMMA OnwardKeeps ==
    ASSUME MessageInv, Inv',
           UNCHANGED <<msg, pending, raf, frame, got, messages, saved, seq, cut, crossed,
                       news, reloads>>,
           timers' \subseteq Token, idleTimers' \in 0..idleTimers,
           \A q \in Queries : /\ pc'[q] = "idle" <=> pc[q] = "idle"
                              /\ pc'[q] = "end" <=> pc[q] = "end"
                              /\ q \in Alive' <=> q \in Alive
    PROVE  MessageInv'
<1>1. Alive' = Alive
  BY DEF Alive
<1>2. {q \in Queries : pc'[q] = "end"} = {q \in Queries : pc[q] = "end"}
  OBVIOUS
<1>3. Cardinality({q \in Queries : pc[q] = "end"}) \in Nat
  BY EndedCount DEF EndedQueries
<1>4. idleTimers' \in Nat /\ idleTimers' <= Cardinality({q \in Queries : pc'[q] = "end"})
  <2>1. idleTimers \in Nat /\ idleTimers <= Cardinality({q \in Queries : pc[q] = "end"})
    BY DEF MessageInv, Counts
  <2> QED BY <1>2, <1>3, <2>1
<1>5. Counts' /\ Named'
  BY <1>1, <1>4 DEF MessageInv, Counts, Named
<1>6. ListsOK'
  BY DEF MessageInv, ListsOK, Growing
<1>7. Unasked'
  BY DEF MessageInv, Unasked
<1>8. Filling'
  BY <1>1 DEF MessageInv, Filling
<1>9. Ended'
  BY <1>1 DEF MessageInv, Ended, Settled, Whole
<1>10. Coming'
  BY <1>1 DEF MessageInv, Coming
<1> QED BY <1>5, <1>6, <1>7, <1>8, <1>9, <1>10 DEF MessageInv

\* A query's end: its message is closed with the buffer flushed into it, whole unless the
\* user cut the query short; perhaps a message about an error follows.
LEMMA EndKeeps ==
    ASSUME MessageInv, Inv', NEW q \in Alive, pc' = [pc EXCEPT ![q] = "end"],
           UNCHANGED <<msg, raf, frame, got, cut, crossed, news, reloads>>,
           timers' \subseteq Token, idleTimers' \in Nat, idleTimers' <= idleTimers + 1,
           pending' = <<>>,
           NEW n, SameMessages(n, messages),
           \A i \in DOMAIN messages :
              IF messages[i].id = msg[q]
              THEN /\ ~n[i].streaming
                   /\ ~crossed /\ q \notin cut => n[i].content \in {got[q], Append(got[q], ErrorText)}
              ELSE n[i].streaming = messages[i].streaming /\ n[i].content = messages[i].content,
           saved' = Persistent(n),
           \/ messages' = n /\ seq' = seq
           \/ /\ messages' = Append(n, [id |-> seq + 1, of |-> 0, content |-> <<ErrorText>>,
                                        streaming |-> FALSE])
              /\ seq' = seq + 1
    PROVE  MessageInv'
<1>1. pc \in [Queries -> {"idle", "fetch", "read", "sleep", "end"}] /\ q \in Queries
  BY DEF MessageInv, Inv, ControlTypeOK, Alive
<1>2. pc'[q] = "end" /\ \A p \in Queries : p # q => pc'[p] = pc[p]
  BY <1>1
<1>3. pc[q] # "end" /\ pc[q] # "idle"
  BY DEF Alive
<1>4. ~crossed => Alive' = {} /\ \A p \in Alive : p = q
  BY <1>2 DEF MessageInv, Inv, OnePerConsole, Alive
<1>0. Named'
  BY <1>2 DEF MessageInv, Named, Alive
<1>5. Counts'
  <2>1. EndedQueries' = EndedQueries \cup {q} /\ q \notin EndedQueries
    BY <1>1, <1>2, <1>3 DEF EndedQueries
  <2>2. Cardinality(EndedQueries') = Cardinality(EndedQueries) + 1
    BY <2>1, EndedCount, FS_AddElement
  <2>3. idleTimers' <= Cardinality(EndedQueries')
    <3>1. idleTimers \in Nat /\ idleTimers <= Cardinality(EndedQueries)
      BY DEF MessageInv, Counts, EndedQueries
    <3> QED BY <2>2, <3>1, EndedCount
  <2>4. <<>> \in Seq(Token)
    OBVIOUS
  <2> QED BY <2>3, <2>4 DEF MessageInv, Counts, EndedQueries
<1> DEFINE e == [id |-> seq + 1, of |-> 0, content |-> <<ErrorText>>, streaming |-> FALSE]
<1>6. seq \in Nat /\ seq >= 1 /\ seq' \in Nat /\ seq' >= seq
  BY DEF MessageInv, ListsOK
<1>7. e \in Message /\ e.id = seq + 1 /\ e.of = 0 /\ e.of \notin Queries /\ ~e.streaming
  <2>1. <<ErrorText>> \in Seq(Token \cup {ErrorText}) /\ seq + 1 \in Nat
    BY <1>6
  <2>2. 0 \notin Queries
    BY DEF Queries
  <2> HIDE DEF ErrorText
  <2> QED BY <2>1, <2>2 DEF Message
<1>8. \/ messages' = n /\ seq' = seq
      \/ messages' = Append(n, e) /\ seq' = seq + 1
  OBVIOUS
<1> HIDE DEF e
<1>9. /\ n \in Seq(Message) /\ Len(n) \in Nat /\ DOMAIN n = 1..Len(n) /\ DOMAIN n = DOMAIN messages
      /\ \A i \in DOMAIN n : n[i].id = messages[i].id /\ n[i].of = messages[i].of
  BY DEF SameMessages
<1>10. /\ messages' \in Seq(Message)
       /\ \A i \in DOMAIN messages' : \/ i \in DOMAIN n /\ messages'[i] = n[i]
                                      \/ i = Len(n) + 1 /\ messages'[i] = e /\ seq' = seq + 1
  <2>1. CASE messages' = n /\ seq' = seq
    BY <1>9, <2>1
  <2>2. CASE messages' = Append(n, e) /\ seq' = seq + 1
    <3>1. /\ messages' \in Seq(Message) /\ DOMAIN messages' = 1..(Len(n) + 1)
          /\ \A i \in 1..(Len(n) + 1) : messages'[i] = IF i = Len(n) + 1 THEN e ELSE n[i]
      <4> DEFINE a == Append(n, e)
      <4>1. n \in Seq(Message) /\ e \in Message
        BY <1>7, <1>9
      <4>2. /\ a \in Seq(Message) /\ DOMAIN a = 1..(Len(n) + 1)
            /\ \A i \in 1..(Len(n) + 1) : a[i] = IF i = Len(n) + 1 THEN e ELSE n[i]
        BY <4>1, Appending
      <4>3. messages' = a
        BY <2>2
      <4> HIDE DEF a
      <4> QED BY <4>2, <4>3
    <3>2. ASSUME NEW i \in DOMAIN messages'
          PROVE  \/ i \in DOMAIN n /\ messages'[i] = n[i]
                 \/ i = Len(n) + 1 /\ messages'[i] = e
      <4>1. i \in 1..Len(n) \/ i = Len(n) + 1
        BY <1>9, <3>1
      <4>2. i \in 1..Len(n) => i # Len(n) + 1
        BY <1>9
      <4> QED BY <1>9, <3>1, <4>1, <4>2
    <3> QED BY <2>2, <3>1, <3>2
  <2> QED BY <1>8, <2>1, <2>2
<1>11. /\ \A i, j \in DOMAIN n : i < j => n[i].id < n[j].id
       /\ \A i \in DOMAIN n : n[i].id \in 1..seq
  <2>1. Growing(messages)
    BY DEF MessageInv, ListsOK
  <2> QED BY <1>9, <2>1 DEF Growing
<1>12. Growing(messages)'
  <2>1. \A i \in DOMAIN messages' : messages'[i].id \in 1..seq'
    BY <1>6, <1>7, <1>10, <1>11
  <2>2. ASSUME NEW i \in DOMAIN messages', NEW j \in DOMAIN messages', i < j
        PROVE  messages'[i].id < messages'[j].id
    <3>1. CASE i \in DOMAIN n /\ messages'[i] = n[i] /\ j \in DOMAIN n /\ messages'[j] = n[j]
      BY <1>11, <2>2, <3>1
    <3>2. CASE i \in DOMAIN n /\ messages'[i] = n[i] /\ messages'[j] = e
      BY <1>6, <1>7, <1>11, <3>2
    <3>3. CASE i = Len(n) + 1
      BY <1>9, <1>10, <2>2, <3>3
    <3> QED BY <1>10, <3>1, <3>2, <3>3
  <2> QED BY <2>1, <2>2 DEF Growing
<1> DEFINE p == Persistent(n)
<1>13. /\ p \in Seq(Message)
       /\ \A k \in DOMAIN p : ~p[k].streaming /\ \E i \in DOMAIN n : p[k] = n[i]
       /\ \A k, l \in DOMAIN p : k < l => p[k].id < p[l].id
  BY <1>9, <1>11, PersistentFacts
<1>14. saved' = p
  OBVIOUS
<1> HIDE DEF p
<1>15. ListsOK'
  <2>1. ASSUME NEW k \in DOMAIN p PROVE p[k].id \in 1..seq'
    <3>1. PICK i \in DOMAIN n : p[k] = n[i]
      BY <1>13
    <3> QED BY <1>6, <1>11, <3>1
  <2>2. Growing(saved)'
    BY <1>13, <1>14, <2>1 DEF Growing
  <2> QED BY <1>6, <1>10, <1>12, <1>13, <1>14, <2>2 DEF ListsOK
<1>16. Unasked'
  <2> SUFFICES ASSUME NEW r \in Queries, pc'[r] = "idle"
               PROVE  /\ got'[r] = <<>>
                      /\ \A i \in DOMAIN messages' : messages'[i].of # r
                      /\ \A k \in DOMAIN saved' : saved'[k].of # r
    BY DEF Unasked
  <2>1. pc[r] = "idle"
    BY <1>2
  <2>2. got[r] = <<>> /\ \A i \in DOMAIN n : n[i].of # r
    BY <1>9, <2>1 DEF MessageInv, Unasked
  <2>3. \A i \in DOMAIN messages' : messages'[i].of # r
    BY <1>7, <1>10, <2>2
  <2>4. \A k \in DOMAIN saved' : saved'[k].of # r
    BY <1>13, <1>14, <2>2
  <2> QED BY <2>2, <2>3, <2>4
<1>17. Filling' /\ Coming'
  BY <1>4 DEF Filling, Coming
<1>18. ASSUME ~crossed, NEW i \in DOMAIN n, NEW r \in Queries,
              n[i].of = r, pc'[r] = "end", r \notin cut, ~n[i].streaming
       PROVE  n[i].content \in {got[r], Append(got[r], ErrorText)}
  <2>1. CASE r = q
    <3>1. messages[i].id = msg[q]
      BY <1>9, <1>18, <2>1 DEF MessageInv, Filling
    <3> QED BY <1>9, <1>18, <2>1, <3>1
  <2>2. CASE r # q
    <3>1. pc[r] = "end" /\ messages[i].of = r
      BY <1>2, <1>9, <1>18, <2>2
    <3>2. messages[i].id # msg[q]
      BY <1>9, <1>18, <2>2, <3>1 DEF MessageInv, Filling
    <3>3. n[i].streaming = messages[i].streaming /\ n[i].content = messages[i].content
      BY <1>9, <3>2
    <3>4. Settled(messages)
      BY <1>18 DEF MessageInv, Ended
    <3> QED BY <1>9, <1>18, <3>1, <3>3, <3>4 DEF Settled, Whole
  <2> QED BY <2>1, <2>2
<1>19. Ended'
  <2> SUFFICES ASSUME ~crossed PROVE Settled(messages)' /\ Settled(saved)'
    BY DEF Ended
  <2>1. ASSUME NEW i \in DOMAIN messages', NEW r \in Queries,
               messages'[i].of = r, pc'[r] = "end", r \notin cut, ~messages'[i].streaming
        PROVE  messages'[i].content \in {got[r], Append(got[r], ErrorText)}
    <3>1. i \in DOMAIN n /\ messages'[i] = n[i]
      BY <1>7, <1>10, <2>1
    <3> QED BY <1>18, <2>1, <3>1
  <2>2. ASSUME NEW k \in DOMAIN p, NEW r \in Queries,
               p[k].of = r, pc'[r] = "end", r \notin cut
        PROVE  p[k].content \in {got[r], Append(got[r], ErrorText)}
    <3>1. PICK i \in DOMAIN n : p[k] = n[i]
      BY <1>13
    <3>2. ~n[i].streaming
      BY <1>13, <3>1
    <3> QED BY <1>18, <2>2, <3>1, <3>2
  <2>3. Settled(messages)'
    BY <2>1 DEF Settled, Whole
  <2>4. Settled(saved)'
    BY <1>14, <2>2 DEF Settled, Whole
  <2> QED BY <2>3, <2>4
<1> QED BY <1>0, <1>5, <1>15, <1>16, <1>17, <1>19 DEF MessageInv

\* The buffer flushed into a running query's message.
LEMMA Flushed ==
    ASSUME MessageInv, NEW q \in Alive
    PROVE  LET n == Appended(messages, msg[q], pending) IN
           /\ SameMessages(n, messages)
           /\ \A i \in DOMAIN messages :
                 /\ n[i].streaming = messages[i].streaming
                 /\ IF messages[i].id = msg[q]
                    THEN ~crossed /\ q \notin cut => n[i].content = got[q]
                    ELSE n[i].content = messages[i].content
<1> DEFINE n == Appended(messages, msg[q], pending)
<1>1. messages \in Seq(Message) /\ pending \in Seq(Token)
  BY DEF MessageInv, ListsOK, Counts
<1>2. pending \in Seq(Token \cup {ErrorText})
  BY <1>1
<1>3. /\ SameMessages(n, messages)
      /\ \A i \in DOMAIN messages :
            /\ n[i].streaming = messages[i].streaming
            /\ n[i].content = IF messages[i].id = msg[q] THEN messages[i].content \o pending
                                                         ELSE messages[i].content
  BY <1>1, <1>2, AppendedFacts
<1>4. ASSUME ~crossed, q \notin cut, NEW i \in DOMAIN messages, messages[i].id = msg[q]
      PROVE  messages[i].content \o pending = got[q]
  BY <1>4 DEF MessageInv, Filling
<1> HIDE DEF n
<1> QED BY <1>3, <1>4 DEF n

\* A list after a message of it was closed.
LEMMA Closed ==
    ASSUME NEW list, NEW f, SameMessages(f, list), NEW id
    PROVE  /\ SameMessages(Finalized(f, id), list)
           /\ \A i \in DOMAIN list :
                 /\ Finalized(f, id)[i].content = f[i].content
                 /\ list[i].id = id => ~Finalized(f, id)[i].streaming
                 /\ list[i].id # id => Finalized(f, id)[i].streaming = f[i].streaming
<1> DEFINE n == Finalized(f, id)
<1>1. f \in Seq(Message)
  BY DEF SameMessages
<1>2. /\ SameMessages(n, f)
      /\ \A i \in DOMAIN f :
            /\ f[i].id = id => ~n[i].streaming
            /\ f[i].id # id => n[i].streaming = f[i].streaming
            /\ n[i].content = f[i].content
  BY <1>1, FinalizedFacts
<1> HIDE DEF n
<1> QED BY <1>2 DEF SameMessages, n

\* ... with an error text at the end of it.
LEMMA Erred ==
    ASSUME NEW list, NEW f, SameMessages(f, list), NEW id
    PROVE  LET g == Appended(f, id, <<ErrorText>>) IN
           /\ SameMessages(g, list)
           /\ \A i \in DOMAIN list :
                 /\ g[i].content = IF list[i].id = id THEN f[i].content \o <<ErrorText>>
                                                      ELSE f[i].content
                 /\ g[i].streaming = f[i].streaming
<1> DEFINE t == <<ErrorText>>
           g == Appended(f, id, t)
<1>1. f \in Seq(Message)
  BY DEF SameMessages
<1>2. t \in Seq(Token \cup {ErrorText})
  OBVIOUS
<1> HIDE DEF t
<1>3. /\ SameMessages(g, f)
      /\ \A i \in DOMAIN f :
            /\ g[i].streaming = f[i].streaming
            /\ g[i].content = IF f[i].id = id THEN f[i].content \o t ELSE f[i].content
  BY <1>1, <1>2, AppendedFacts
<1> HIDE DEF g
<1> QED BY <1>3 DEF SameMessages, g, t

LEMMA FinishKeeps ==
    ASSUME MessageInv, Inv', NEW q \in Alive, Finish(q),
           UNCHANGED <<msg, raf, frame, got, cut, news, reloads>>, timers' \subseteq Token
    PROVE  MessageInv'
<1>1. PICK f : f = Appended(messages, msg[q], pending)
  OBVIOUS
<1>2. PICK n : n = Finalized(f, msg[q])
  OBVIOUS
<1>3. /\ SameMessages(f, messages)
      /\ \A i \in DOMAIN messages :
            /\ f[i].streaming = messages[i].streaming
            /\ IF messages[i].id = msg[q]
               THEN ~crossed /\ q \notin cut => f[i].content = got[q]
               ELSE f[i].content = messages[i].content
  BY <1>1, Flushed
<1>4. /\ SameMessages(n, messages)
      /\ \A i \in DOMAIN messages :
            /\ n[i].content = f[i].content
            /\ messages[i].id = msg[q] => ~n[i].streaming
            /\ messages[i].id # msg[q] => n[i].streaming = f[i].streaming
  BY <1>2, <1>3, Closed
<1>5. /\ pc' = [pc EXCEPT ![q] = "end"] /\ messages' = n /\ saved' = Persistent(n)
      /\ pending' = <<>> /\ UNCHANGED <<seq, idleTimers, crossed>>
  BY <1>1, <1>2 DEF Finish, Shown
<1>6. \A i \in DOMAIN messages :
         IF messages[i].id = msg[q]
         THEN /\ ~n[i].streaming
              /\ ~crossed /\ q \notin cut => n[i].content \in {got[q], Append(got[q], ErrorText)}
         ELSE n[i].streaming = messages[i].streaming /\ n[i].content = messages[i].content
  BY <1>3, <1>4
<1>7. idleTimers' \in Nat /\ idleTimers' <= idleTimers + 1
  BY <1>5 DEF MessageInv, Counts
<1> QED BY <1>4, <1>5, <1>6, <1>7, EndKeeps

LEMMA GiveUpKeeps ==
    ASSUME MessageInv, Inv', NEW q \in Alive, GiveUp(q),
           UNCHANGED <<msg, raf, frame, got, cut, news, reloads>>, timers' \subseteq Token
    PROVE  MessageInv'
<1> DEFINE e == [id |-> seq + 1, of |-> 0, content |-> <<ErrorText>>, streaming |-> FALSE]
<1>1. PICK f : f = Appended(messages, msg[q], pending)
  OBVIOUS
<1>2. PICK g : g = Appended(f, msg[q], <<ErrorText>>)
  OBVIOUS
<1>3. PICK into \in BOOLEAN :
        /\ pc' = [pc EXCEPT ![q] = "end"]
        /\ pending' = <<>> /\ idleTimers' = idleTimers + 1 /\ UNCHANGED crossed
        /\ IF into
           THEN /\ messages' = Finalized(g, msg[q]) /\ saved' = Persistent(Finalized(g, msg[q]))
                /\ seq' = seq
           ELSE /\ messages' = Append(Finalized(f, msg[q]), e)
                /\ saved' = Persistent(Finalized(f, msg[q])) /\ seq' = seq + 1
  BY <1>1, <1>2, Zenon DEF GiveUp, Shown
<1>4. PICK n : n = Finalized(IF into THEN g ELSE f, msg[q])
  OBVIOUS
<1>5. /\ SameMessages(f, messages)
      /\ \A i \in DOMAIN messages :
            /\ f[i].streaming = messages[i].streaming
            /\ IF messages[i].id = msg[q]
               THEN ~crossed /\ q \notin cut => f[i].content = got[q]
               ELSE f[i].content = messages[i].content
  BY <1>1, Flushed
<1>6. /\ SameMessages(g, messages)
      /\ \A i \in DOMAIN messages :
            /\ g[i].content = IF messages[i].id = msg[q] THEN f[i].content \o <<ErrorText>>
                                                         ELSE f[i].content
            /\ g[i].streaming = f[i].streaming
  BY <1>2, <1>5, Erred
<1>7. got[q] \o <<ErrorText>> = Append(got[q], ErrorText)
  <2>1. got[q] \in Seq(Token)
    BY DEF MessageInv, Counts, Alive
  <2> QED BY <2>1
<1>8. PICK h : h = IF into THEN g ELSE f
  OBVIOUS
<1>9. /\ SameMessages(h, messages)
      /\ \A i \in DOMAIN messages :
            /\ h[i].streaming = messages[i].streaming
            /\ IF messages[i].id = msg[q]
               THEN ~crossed /\ q \notin cut => h[i].content \in {got[q], Append(got[q], ErrorText)}
               ELSE h[i].content = messages[i].content
  BY <1>5, <1>6, <1>7, <1>8
<1>10. /\ SameMessages(n, messages)
       /\ \A i \in DOMAIN messages :
             /\ n[i].content = h[i].content
             /\ messages[i].id = msg[q] => ~n[i].streaming
             /\ messages[i].id # msg[q] => n[i].streaming = h[i].streaming
  BY <1>4, <1>8, <1>9, Closed
<1>11. \A i \in DOMAIN messages :
          IF messages[i].id = msg[q]
          THEN /\ ~n[i].streaming
               /\ ~crossed /\ q \notin cut => n[i].content \in {got[q], Append(got[q], ErrorText)}
          ELSE n[i].streaming = messages[i].streaming /\ n[i].content = messages[i].content
  BY <1>9, <1>10
<1>12. /\ saved' = Persistent(n)
       /\ (messages' = n /\ seq' = seq) \/ (messages' = Append(n, e) /\ seq' = seq + 1)
  BY <1>3, <1>4
<1>13. idleTimers' \in Nat /\ idleTimers' <= idleTimers + 1
  BY <1>3 DEF MessageInv, Counts
<1> QED BY <1>3, <1>10, <1>11, <1>12, <1>13, EndKeeps

\* A query that ends without a word leaves its message open.
LEMMA SilentlyKeepsMessages ==
    ASSUME MessageInv, Inv', NEW q \in Alive, Silently(q),
           UNCHANGED <<msg, raf, frame, got, cut, news, reloads>>, timers' \subseteq Token
    PROVE  MessageInv'
<1>1. pc \in [Queries -> {"idle", "fetch", "read", "sleep", "end"}] /\ q \in Queries
  BY DEF MessageInv, Inv, ControlTypeOK, Alive
<1>2. /\ pc' = [pc EXCEPT ![q] = "end"] /\ crossed' = (crossed \/ pending # <<>>)
      /\ UNCHANGED <<pending, messages, seq, saved, idleTimers>>
  BY DEF Silently, store
<1>3. pc'[q] = "end" /\ \A p \in Queries : p # q => pc'[p] = pc[p]
  BY <1>1, <1>2
<1>4. pc[q] # "end" /\ pc[q] # "idle"
  BY DEF Alive
<1>5. ~crossed => Alive' = {}
  BY <1>3 DEF MessageInv, Inv, OnePerConsole, Alive
<1>0. Named'
  BY <1>3 DEF MessageInv, Named, Alive
<1>6. Counts'
  <2>1. EndedQueries' = EndedQueries \cup {q} /\ q \notin EndedQueries
    BY <1>1, <1>3, <1>4 DEF EndedQueries
  <2>2. Cardinality(EndedQueries') = Cardinality(EndedQueries) + 1
    BY <2>1, EndedCount, FS_AddElement
  <2>3. idleTimers' <= Cardinality(EndedQueries')
    <3>1. idleTimers \in Nat /\ idleTimers <= Cardinality(EndedQueries)
      BY DEF MessageInv, Counts, EndedQueries
    <3> QED BY <1>2, <2>2, <3>1, EndedCount
  <2> QED BY <1>2, <2>3 DEF MessageInv, Counts, EndedQueries
<1>7. ListsOK' /\ Unasked'
  BY <1>2, <1>3 DEF MessageInv, ListsOK, Growing, Unasked
<1>8. Filling' /\ Coming'
  BY <1>2, <1>5 DEF Filling, Coming
<1>9. Ended'
  <2> SUFFICES ASSUME ~crossed, pending = <<>> PROVE Settled(messages)' /\ Settled(saved)'
    BY <1>2 DEF Ended
  <2>1. Settled(messages) /\ Settled(saved)
    BY DEF MessageInv, Ended
  <2>2. \A i \in DOMAIN messages : messages[i].of = q => messages[i].streaming
    BY DEF MessageInv, Filling
  <2>3. \A i \in DOMAIN saved : saved[i].of # q
    BY DEF MessageInv, Filling
  <2>4. Settled(messages)'
    BY <1>2, <1>3, <2>1, <2>2 DEF Settled, Whole
  <2>5. Settled(saved)'
    BY <1>2, <1>3, <2>1, <2>3 DEF Settled, Whole
  <2> QED BY <2>4, <2>5
<1> QED BY <1>0, <1>6, <1>7, <1>8, <1>9 DEF MessageInv

\* Lists of the same messages grow alike.
LEMMA SameGrows ==
    ASSUME MessageInv, NEW n, SameMessages(n, messages), messages' = n, seq' = seq
    PROVE  Growing(messages)' /\ messages' \in Seq(Message)
<1>1. Growing(messages)
  BY DEF MessageInv, ListsOK
<1> QED BY <1>1 DEF SameMessages, Growing

LEMMA ConcatAppend ==
    ASSUME NEW S, NEW a \in Seq(S), NEW b \in Seq(S), NEW e \in S
    PROVE  a \o Append(b, e) = Append(a \o b, e)
OBVIOUS

LEMMA ConcatEmpty ==
    ASSUME NEW S, NEW a \in Seq(S)
    PROVE  a \o <<>> = a
OBVIOUS

\* A token goes into the buffer and into what was received.
LEMMA ReceiveKeeps ==
    ASSUME MessageInv, Inv', NEW q \in Queries, Receive(q)
    PROVE  MessageInv'
<1>1. PICK t : t = <<q, attempt[q]>>
  OBVIOUS
<1>2. /\ pc[q] = "read" /\ q \in Alive
      /\ got' = [got EXCEPT ![q] = Append(got[q], t)] /\ pending' = Append(pending, t)
      /\ IF raf = 0 THEN raf' = msg[q] /\ frame' = TRUE ELSE raf' = raf /\ frame' = frame
      /\ UNCHANGED <<pc, msg, timers, messages, seq, idleTimers, saved, crossed, cut, news, reloads>>
  BY <1>1 DEF Receive, frames, store, Alive
<1>3. t \in Token
  BY <1>1 DEF MessageInv, Inv, ControlTypeOK, Token
<1>4. Alive' = Alive /\ (~crossed => \A p \in Alive : p = q)
  BY <1>2 DEF MessageInv, Inv, OnePerConsole, Alive
<1>5. /\ msg[q] \in Nat /\ msg[q] # 0 /\ pending \in Seq(Token) /\ got \in [Queries -> Seq(Token)]
      /\ raf \in Nat /\ frame \in BOOLEAN /\ (frame => raf # 0)
  BY <1>2 DEF MessageInv, Counts, Named
<1>6. pending' \in Seq(Token) /\ Append(got[q], t) \in Seq(Token)
  BY <1>2, <1>3, <1>5
<1>7. got' \in [Queries -> Seq(Token)] /\ got'[q] = Append(got[q], t)
      /\ \A p \in Queries : p # q => got'[p] = got[p]
  BY <1>2, <1>5, <1>6
<1>8. raf' \in Nat /\ frame' \in BOOLEAN /\ (frame' => raf' # 0)
  BY <1>2, <1>5
<1>9. Counts' /\ Named' /\ ListsOK'
  BY <1>2, <1>4, <1>6, <1>7, <1>8 DEF MessageInv, Counts, Named, ListsOK, Growing
<1>10. Unasked'
  BY <1>2, <1>7 DEF MessageInv, Unasked
<1>11. Filling'
  <2> SUFFICES ASSUME ~crossed
               PROVE  /\ raf' \in {0, msg[q]}
                      /\ \A i \in DOMAIN messages :
                            /\ messages[i].of = q <=> messages[i].id = msg[q]
                            /\ messages[i].of = q => messages[i].streaming
                            /\ messages[i].of = q /\ q \notin cut =>
                                  messages[i].content \o pending' = got'[q]
                      /\ \A i \in DOMAIN saved : saved[i].of # q
    BY <1>2, <1>4 DEF Filling
  <2>1. /\ raf \in {0, msg[q]}
        /\ \A i \in DOMAIN messages :
              /\ messages[i].of = q <=> messages[i].id = msg[q]
              /\ messages[i].of = q => messages[i].streaming
              /\ messages[i].of = q /\ q \notin cut => messages[i].content \o pending = got[q]
        /\ \A i \in DOMAIN saved : saved[i].of # q
    BY <1>2 DEF MessageInv, Filling
  <2>2. ASSUME NEW i \in DOMAIN messages, messages[i].of = q, q \notin cut
        PROVE  messages[i].content \o pending' = got'[q]
    <3>1. messages[i] \in Message
      BY DEF MessageInv, ListsOK
    <3>2. PICK c : c = messages[i].content
      OBVIOUS
    <3>3. PICK S : S = Token \cup {ErrorText}
      OBVIOUS
    <3>4. c \in Seq(S)
      BY <3>1, <3>2, <3>3 DEF Message
    <3>5. pending \in Seq(S) /\ t \in S
      BY <1>3, <1>5, <3>3
    <3>6. c \o Append(pending, t) = Append(c \o pending, t)
      BY <3>4, <3>5, ConcatAppend
    <3> QED BY <1>2, <1>7, <2>1, <2>2, <3>2, <3>6
  <2> QED BY <1>2, <2>1, <2>2
<1>12. Ended'
  BY <1>2, <1>4, <1>7 DEF MessageInv, Ended, Settled, Whole
<1>13. Coming'
  BY <1>2, <1>4 DEF MessageInv, Coming
<1> QED BY <1>9, <1>10, <1>11, <1>12, <1>13 DEF MessageInv

\* The frame empties the buffer into the message it was asked for.
LEMMA FrameKeeps ==
    ASSUME MessageInv, Inv', Frame
    PROVE  MessageInv'
<1>1. PICK n : n = Appended(messages, raf, pending)
  OBVIOUS
<1>2. /\ frame /\ raf' = 0 /\ frame' = FALSE /\ messages' = n /\ pending' = <<>>
      /\ UNCHANGED <<pc, msg, timers, seq, idleTimers, saved, got, crossed, cut, news, reloads>>
  BY <1>1 DEF Frame, history
<1>3. PICK S : S = Token \cup {ErrorText}
  OBVIOUS
<1>4. /\ pending \in Seq(S) /\ messages \in Seq(Message) /\ raf # 0
      /\ \A i \in DOMAIN messages : messages[i].content \in Seq(S)
  <2>1. pending \in Seq(Token) /\ raf # 0
    BY <1>2 DEF MessageInv, Counts
  <2>2. messages \in Seq(Message)
    BY DEF MessageInv, ListsOK
  <2>3. \A i \in DOMAIN messages : messages[i] \in Message
    BY <2>2
  <2>4. \A i \in DOMAIN messages : messages[i].content \in Seq(S)
    BY <1>3, <2>3 DEF Message
  <2>5. pending \in Seq(S)
    BY <1>3, <2>1
  <2> QED BY <2>1, <2>2, <2>4, <2>5
<1>5. /\ SameMessages(n, messages)
      /\ \A i \in DOMAIN messages :
            /\ n[i].streaming = messages[i].streaming
            /\ n[i].content = IF messages[i].id = raf THEN messages[i].content \o pending
                                                      ELSE messages[i].content
  BY <1>1, <1>3, <1>4, AppendedFacts
<1>6. /\ DOMAIN n = DOMAIN messages
      /\ \A i \in DOMAIN n : n[i].id = messages[i].id /\ n[i].of = messages[i].of
  BY <1>5 DEF SameMessages
<1>7. Alive' = Alive
  BY <1>2 DEF Alive
<1>8. Counts' /\ Named'
  <2>1. <<>> \in Seq(Token)
    OBVIOUS
  <2> QED BY <1>2, <1>7, <2>1 DEF MessageInv, Counts, Named
<1>9. ListsOK'
  <2>1. Growing(messages)' /\ messages' \in Seq(Message)
    BY <1>2, <1>5, SameGrows
  <2> QED BY <1>2, <2>1 DEF MessageInv, ListsOK, Growing
<1>10. Unasked'
  BY <1>2, <1>6 DEF MessageInv, Unasked
<1>11. Filling'
  <2> SUFFICES ASSUME ~crossed, NEW q \in Alive
               PROVE  /\ \A i \in DOMAIN n :
                            /\ n[i].of = q <=> n[i].id = msg[q]
                            /\ n[i].of = q => n[i].streaming
                            /\ n[i].of = q /\ q \notin cut => n[i].content \o <<>> = got[q]
                      /\ \A i \in DOMAIN saved : saved[i].of # q
    BY <1>2, <1>7 DEF Filling
  <2>1. /\ raf = msg[q]
        /\ \A i \in DOMAIN messages :
              /\ messages[i].of = q <=> messages[i].id = msg[q]
              /\ messages[i].of = q => messages[i].streaming
              /\ messages[i].of = q /\ q \notin cut => messages[i].content \o pending = got[q]
        /\ \A i \in DOMAIN saved : saved[i].of # q
    BY <1>4 DEF MessageInv, Filling
  <2>2. ASSUME NEW i \in DOMAIN n, n[i].of = q, q \notin cut
        PROVE  n[i].content \o <<>> = got[q]
    <3>1. n[i].content = got[q]
      BY <1>5, <1>6, <2>1, <2>2
    <3>2. got[q] \in Seq(Token)
      BY DEF MessageInv, Counts, Alive
    <3>3. got[q] \o <<>> = got[q]
      BY <3>2, ConcatEmpty
    <3> QED BY <3>1, <3>3
  <2> QED BY <1>5, <1>6, <2>1, <2>2
<1>12. Ended'
  <2> SUFFICES ASSUME ~crossed PROVE Settled(messages)' /\ Settled(saved)'
    BY <1>2 DEF Ended
  <2>1. Settled(messages) /\ Settled(saved)
    BY DEF MessageInv, Ended
  <2>2. ASSUME NEW i \in DOMAIN messages, NEW q \in Queries, messages[i].of = q, pc[q] = "end"
        PROVE  n[i].content = messages[i].content
    <3>1. CASE Alive = {}
      <4>1. pending = <<>>
        BY <3>1 DEF MessageInv, Ended
      <4>2. messages[i].content \o <<>> = messages[i].content
        BY <1>4, ConcatEmpty
      <4> QED BY <1>5, <4>1, <4>2
    <3>2. CASE Alive # {}
      <4>1. PICK p \in Alive : TRUE
        BY <3>2
      <4>2. p # q /\ p \in Queries
        BY <2>2 DEF Alive
      <4>3. raf = msg[p] /\ messages[i].id # msg[p]
        BY <1>4, <2>2, <4>2 DEF MessageInv, Filling
      <4> QED BY <1>5, <4>3
    <3> QED BY <3>1, <3>2
  <2>3. Settled(messages)'
    <3> SUFFICES ASSUME NEW i \in DOMAIN n, NEW q \in Queries, n[i].of = q, pc[q] = "end",
                        q \notin cut, ~n[i].streaming
                 PROVE  n[i].content \in {got[q], Append(got[q], ErrorText)}
      BY <1>2 DEF Settled, Whole
    <3>1. i \in DOMAIN messages /\ messages[i].of = q /\ ~messages[i].streaming
      BY <1>5, <1>6
    <3>2. messages[i].content \in {got[q], Append(got[q], ErrorText)}
      BY <2>1, <3>1 DEF Settled, Whole
    <3> QED BY <2>2, <3>1, <3>2
  <2>4. Settled(saved)'
    BY <1>2, <2>1 DEF Settled, Whole
  <2> QED BY <2>3, <2>4
<1>13. Coming'
  BY <1>2 DEF Coming
<1> QED BY <1>8, <1>9, <1>10, <1>11, <1>12, <1>13 DEF MessageInv

LEMMA ConcatFacts ==
    ASSUME NEW S, NEW s \in Seq(S), NEW t \in Seq(S)
    PROVE  LET n == s \o t IN
           /\ n \in Seq(S) /\ Len(n) = Len(s) + Len(t)
           /\ \A i \in 1..Len(s) : n[i] = s[i]
           /\ \A i \in 1..Len(t) : n[Len(s) + i] = t[i]
OBVIOUS

\* A list with two more entries.
LEMMA TwoMore ==
    ASSUME NEW S, NEW s \in Seq(S), NEW a \in S, NEW b \in S
    PROVE  LET n == s \o <<a, b>> IN
           /\ n \in Seq(S) /\ DOMAIN n = 1..(Len(s) + 2) /\ Len(s) \in Nat /\ DOMAIN s = 1..Len(s)
           /\ \A i \in DOMAIN s : n[i] = s[i]
           /\ n[Len(s) + 1] = a /\ n[Len(s) + 2] = b
<1> DEFINE t == <<a, b>>
           n == s \o t
<1>1. t \in Seq(S) /\ Len(t) = 2 /\ t[1] = a /\ t[2] = b
  OBVIOUS
<1>2. s \in Seq(S) /\ t \in Seq(S)
  BY <1>1
<1> HIDE DEF t
<1>3. /\ n \in Seq(S) /\ Len(n) = Len(s) + 2 /\ Len(s) \in Nat
      /\ \A i \in 1..Len(s) : n[i] = s[i]
      /\ n[Len(s) + 1] = t[1] /\ n[Len(s) + 2] = t[2]
  <2>1. /\ n \in Seq(S) /\ Len(n) = Len(s) + Len(t)
        /\ \A i \in 1..Len(s) : n[i] = s[i]
        /\ \A i \in 1..Len(t) : n[Len(s) + i] = t[i]
    BY <1>2, ConcatFacts
  <2>2. Len(s) \in Nat /\ 1 \in 1..2 /\ 2 \in 1..2
    OBVIOUS
  <2> HIDE DEF n
  <2> QED BY <1>1, <2>1, <2>2
<1> HIDE DEF n
<1>4. n[Len(s) + 1] = a /\ n[Len(s) + 2] = b
  BY <1>1, <1>3
<1>5. DOMAIN n = 1..(Len(s) + 2) /\ DOMAIN s = 1..Len(s)
  BY <1>3
<1> QED BY <1>3, <1>4, <1>5 DEF n, t

\* A new query starts with an empty message of its own.
LEMMA SubmitKeepsMessages ==
    ASSUME MessageInv, Inv', NEW q \in Queries, Submit(q)
    PROVE  MessageInv'
<1>1. PICK a : a = [id |-> seq + 1, of |-> 0, content |-> <<>>, streaming |-> FALSE]
  OBVIOUS
<1>2. PICK b : b = [id |-> seq + 2, of |-> q, content |-> <<>>, streaming |-> TRUE]
  OBVIOUS
<1>3. PICK n : n = messages \o <<a, b>>
  OBVIOUS
<1>4. /\ pc[q] = "idle" /\ pc' = [pc EXCEPT ![q] = "fetch"]
      /\ msg' = [msg EXCEPT ![q] = seq + 2] /\ timers' = timers \cup {<<q, 0>>}
      /\ messages' = n /\ seq' = seq + 2 /\ crossed' = (crossed \/ Alive # {} \/ raf # 0)
      /\ UNCHANGED <<pending, raf, frame, idleTimers, saved, got, cut, news, reloads>>
  BY <1>1, <1>2, <1>3 DEF Submit
<1>5. /\ pc \in [Queries -> {"idle", "fetch", "read", "sleep", "end"}]
      /\ msg \in [Queries -> Nat] /\ seq \in Nat /\ seq >= 1
  BY DEF MessageInv, Inv, ControlTypeOK, Counts, ListsOK
<1>6. /\ pc'[q] = "fetch" /\ \A p \in Queries : p # q => pc'[p] = pc[p]
      /\ msg' \in [Queries -> Nat]
      /\ msg'[q] = seq + 2 /\ \A p \in Queries : p # q => msg'[p] = msg[p]
  BY <1>4, <1>5
<1>7. Alive' = Alive \cup {q} /\ q \notin Alive /\ Alive \subseteq Queries
  BY <1>4, <1>6 DEF Alive
<1>8. /\ a \in Message /\ a.id = seq + 1 /\ a.of = 0 /\ ~a.streaming
      /\ b \in Message /\ b.id = seq + 2 /\ b.of = q /\ b.streaming /\ b.content = <<>>
  <2>1. <<>> \in Seq(Token \cup {ErrorText}) /\ seq + 1 \in Nat /\ seq + 2 \in Nat
    BY <1>5
  <2> QED BY <1>1, <1>2, <2>1 DEF Message
<1>9. /\ n \in Seq(Message) /\ DOMAIN n = 1..(Len(messages) + 2) /\ Len(messages) \in Nat
      /\ DOMAIN messages = 1..Len(messages)
      /\ \A i \in DOMAIN messages : n[i] = messages[i]
      /\ n[Len(messages) + 1] = a /\ n[Len(messages) + 2] = b
  <2>1. messages \in Seq(Message)
    BY DEF MessageInv, ListsOK
  <2> QED BY <1>3, <1>8, <2>1, TwoMore
<1>10. PICK len \in Nat : len = Len(messages)
  BY <1>9
<1>11. \A i \in DOMAIN n : \/ i \in DOMAIN messages /\ n[i] = messages[i]
                           \/ i = len + 1 /\ n[i] = a
                           \/ i = len + 2 /\ n[i] = b
  <2>1. \A i \in 1..(len + 2) : i \in 1..len \/ i = len + 1 \/ i = len + 2
    OBVIOUS
  <2> QED BY <1>9, <1>10, <2>1
<1>12. /\ \A i, j \in DOMAIN messages : i < j => messages[i].id < messages[j].id
       /\ \A i \in DOMAIN messages : messages[i].id \in 1..seq
       /\ \A i, j \in DOMAIN saved : i < j => saved[i].id < saved[j].id
       /\ \A i \in DOMAIN saved : saved[i].id \in 1..seq
  BY DEF MessageInv, ListsOK, Growing
<1>13. ASSUME NEW i \in DOMAIN n, NEW j \in DOMAIN n, i < j PROVE n[i].id < n[j].id
  <2>1. i \in Nat /\ j \in Nat /\ \A k \in DOMAIN messages : k \in Nat /\ k <= len
    BY <1>9, <1>10
  <2>2. CASE i \in DOMAIN messages /\ n[i] = messages[i]
    BY <1>5, <1>8, <1>11, <1>12, <1>13, <2>2
  <2>3. CASE i = len + 1 /\ n[i] = a
    <3>1. j = len + 2 /\ n[j] = b
      BY <1>11, <1>13, <2>1, <2>3
    <3> QED BY <1>5, <1>8, <2>3, <3>1
  <2>4. CASE i = len + 2
    BY <1>11, <1>13, <2>1, <2>4
  <2> QED BY <1>11, <2>2, <2>3, <2>4
<1>14. \A i \in DOMAIN n : n[i].id \in 1..(seq + 2)
  <2>1. seq + 1 \in 1..(seq + 2) /\ seq + 2 \in 1..(seq + 2) /\ \A k \in 1..seq : k \in 1..(seq + 2)
    BY <1>5
  <2> QED BY <1>8, <1>11, <1>12, <2>1
<1>15. ListsOK'
  <2>1. Growing(messages)'
    BY <1>4, <1>13, <1>14 DEF Growing
  <2>2. \A k \in 1..seq : k \in 1..(seq + 2)
    BY <1>5
  <2>3. Growing(saved)'
    BY <1>4, <1>12, <2>2 DEF Growing
  <2>4. seq' \in Nat /\ seq' >= 1
    BY <1>4, <1>5
  <2> QED BY <1>4, <1>9, <2>1, <2>3, <2>4 DEF MessageInv, ListsOK
<1>16. Counts' /\ Named'
  <2>1. <<q, 0>> \in Token
    BY DEF Token
  <2>2. {p \in Queries : pc'[p] = "end"} = {p \in Queries : pc[p] = "end"}
    BY <1>4, <1>6
  <2>3. msg'[q] # 0
    BY <1>5, <1>6
  <2>4. Counts'
    BY <1>4, <1>6, <2>1, <2>2 DEF MessageInv, Counts
  <2>5. Named'
    BY <1>6, <1>7, <2>3 DEF MessageInv, Named
  <2> QED BY <2>4, <2>5
<1>17. /\ got[q] = <<>>
       /\ \A i \in DOMAIN messages : messages[i].of # q
       /\ \A i \in DOMAIN saved : saved[i].of # q
  BY <1>4 DEF MessageInv, Unasked
<1>18. a.of \notin Queries
  BY <1>8 DEF Queries
<1>19. Unasked'
  <2> SUFFICES ASSUME NEW r \in Queries, pc'[r] = "idle"
               PROVE  /\ got[r] = <<>> /\ \A i \in DOMAIN n : n[i].of # r
                      /\ \A i \in DOMAIN saved : saved[i].of # r
    BY <1>4 DEF Unasked
  <2>1. r # q /\ pc[r] = "idle"
    BY <1>6
  <2> QED BY <1>8, <1>11, <1>18, <2>1 DEF MessageInv, Unasked
<1>20. Filling'
  <2> SUFFICES ASSUME ~crossed, Alive = {}, raf = 0
               PROVE  /\ raf \in {0, seq + 2}
                      /\ \A i \in DOMAIN n :
                            /\ n[i].of = q <=> n[i].id = seq + 2
                            /\ n[i].of = q => n[i].streaming
                            /\ n[i].of = q /\ q \notin cut => n[i].content \o pending = got[q]
                      /\ \A i \in DOMAIN saved : saved[i].of # q
    <3>1. ~crossed' => ~crossed /\ Alive = {} /\ raf = 0 /\ Alive' = {q}
      BY <1>4, <1>7
    <3> QED BY <1>4, <1>6, <3>1 DEF Filling
  <2>1. pending = <<>> /\ <<>> \o <<>> = <<>>
    BY DEF MessageInv, Ended
  <2>2. seq + 1 # seq + 2 /\ \A k \in 1..seq : k # seq + 2
    BY <1>5
  <2>3. a.of # q
    BY <1>18
  <2> QED BY <1>8, <1>11, <1>12, <1>17, <2>1, <2>2, <2>3
<1>21. Ended'
  <2> SUFFICES ASSUME ~crossed PROVE Settled(messages)' /\ Settled(saved)'
    BY <1>4, <1>7 DEF Ended
  <2>1. Settled(messages) /\ Settled(saved)
    BY DEF MessageInv, Ended
  <2>2. \A r \in Queries : pc'[r] = "end" => pc[r] = "end" /\ r # q
    BY <1>6
  <2>3. Settled(messages)'
    <3> SUFFICES ASSUME NEW i \in DOMAIN n, NEW r \in Queries, n[i].of = r, pc'[r] = "end",
                        r \notin cut, ~n[i].streaming
                 PROVE  n[i].content \in {got[r], Append(got[r], ErrorText)}
      BY <1>4 DEF Settled, Whole
    <3>1. i \in DOMAIN messages /\ n[i] = messages[i]
      BY <1>8, <1>11, <1>18
    <3> QED BY <2>1, <2>2, <3>1 DEF Settled, Whole
  <2>4. Settled(saved)'
    BY <1>4, <2>1, <2>2 DEF Settled, Whole
  <2> QED BY <2>3, <2>4
<1>22. Coming'
  <2> SUFFICES ASSUME ~crossed, raf = 0, Alive = {}, cut = {}
               PROVE  pending # <<>> => frame
    BY <1>4 DEF Coming
  <2> QED BY DEF MessageInv, Ended
<1> QED BY <1>15, <1>16, <1>19, <1>20, <1>21, <1>22 DEF MessageInv

\* A cancel empties the buffer; what was received is not claimed to be shown.
LEMMA AbortKeepsMessages ==
    ASSUME MessageInv, Inv', Abort
    PROVE  MessageInv'
<1>1. /\ frame' = FALSE /\ pending' = <<>> /\ cut' = cut \cup Alive
      /\ UNCHANGED <<pc, msg, timers, raf, messages, seq, idleTimers, saved, got, crossed, news,
                     reloads>>
  BY DEF Abort
<1>2. Alive' = Alive /\ Alive \subseteq Queries
  BY <1>1 DEF Alive
<1>3. <<>> \in Seq(Token)
  OBVIOUS
<1>4. Counts' /\ Named' /\ ListsOK' /\ Unasked'
  BY <1>1, <1>2, <1>3 DEF MessageInv, Counts, Named, ListsOK, Growing, Unasked
<1>5. Filling'
  BY <1>1, <1>2 DEF MessageInv, Filling
<1>6. Ended'
  BY <1>1 DEF MessageInv, Ended, Settled, Whole
<1>7. Coming'
  BY <1>1, <1>2 DEF MessageInv, Coming
<1> QED BY <1>4, <1>5, <1>6, <1>7 DEF MessageInv

\* The message a store starts with.
LEMMA WelcomeFacts ==
    /\ <<Welcome>> \in Seq(Message) /\ DOMAIN <<Welcome>> = {1} /\ <<Welcome>>[1] = Welcome
    /\ Welcome.id = 1 /\ Welcome.of = 0 /\ Welcome.of \notin Queries /\ ~Welcome.streaming
<1>1. <<>> \in Seq(Token \cup {ErrorText})
  OBVIOUS
<1>2. Welcome \in Message
  BY <1>1 DEF Welcome, Message
<1>3. Welcome.id = 1 /\ Welcome.of = 0 /\ ~Welcome.streaming
  BY DEF Welcome
<1>4. 0 \notin Queries
  BY DEF Queries
<1> HIDE DEF Welcome
<1> QED BY <1>2, <1>3, <1>4

LEMMA NewKeepsMessages ==
    ASSUME MessageInv, Inv', NewConversation
    PROVE  MessageInv'
<1>1. /\ news < MaxNews /\ news' = news + 1 /\ messages' = <<Welcome>> /\ saved' = <<>> /\ seq' = 1
      /\ crossed' = (crossed \/ Alive # {}) /\ cut' = cut \cup Alive
      /\ UNCHANGED <<pc, msg, timers, pending, raf, frame, idleTimers, got, reloads>>
  BY DEF NewConversation, refs
<1>2. Alive' = Alive /\ Alive \subseteq Queries
  BY <1>1 DEF Alive
<1>3. news' \in 0..MaxNews
  BY <1>1 DEF MessageInv, Counts
<1>4. Counts' /\ Named'
  BY <1>1, <1>2, <1>3 DEF MessageInv, Counts, Named
<1>5. <<>> \in Seq(Message) /\ DOMAIN <<>> = {}
  OBVIOUS
<1>6. ListsOK'
  <2>1. Growing(messages)'
    BY <1>1, WelcomeFacts DEF Growing
  <2>2. Growing(saved)'
    BY <1>1, <1>5 DEF Growing
  <2> QED BY <1>1, <1>5, <2>1, <2>2, WelcomeFacts DEF ListsOK
<1>7. Unasked'
  BY <1>1, <1>5, WelcomeFacts DEF MessageInv, Unasked
<1>8. Filling' /\ Coming'
  BY <1>1, <1>2 DEF MessageInv, Filling, Coming, Ended
<1>9. Ended'
  BY <1>1, <1>2, <1>5, WelcomeFacts DEF MessageInv, Ended, Settled
<1> QED BY <1>4, <1>6, <1>7, <1>8, <1>9 DEF MessageInv

\* A reload ends every query and shows what was saved; ids go on from the last one.
LEMMA ReloadKeepsMessages ==
    ASSUME MessageInv, Inv', Reload
    PROVE  MessageInv'
<1> DEFINE ids == {saved[i].id : i \in DOMAIN saved}
<1>1. /\ reloads < MaxReloads /\ reloads' = reloads + 1
      /\ pc' = [q \in Queries |-> IF pc[q] = "idle" THEN "idle" ELSE "end"]
      /\ timers' = {} /\ idleTimers' = 0 /\ pending' = <<>> /\ raf' = 0 /\ frame' = FALSE
      /\ messages' = IF saved = <<>> THEN <<Welcome>> ELSE saved
      /\ seq' = IF saved = <<>> THEN seq ELSE CHOOSE n \in ids : \A m \in ids : m <= n
      /\ cut' = cut \cup Alive
      /\ UNCHANGED <<msg, saved, got, crossed, news>>
  BY DEF Reload
<1>2. Alive' = {} /\ Alive \subseteq Queries
  BY <1>1 DEF Alive
<1>3. Counts' /\ Named'
  <2>1. reloads' \in 0..MaxReloads
    BY <1>1 DEF MessageInv, Counts
  <2>2. {q \in Queries : pc'[q] = "end"} \in SUBSET Queries
    OBVIOUS
  <2>3. Cardinality({q \in Queries : pc'[q] = "end"}) \in Nat
    BY <2>2, QuerySets
  <2>4. 0 <= Cardinality({q \in Queries : pc'[q] = "end"})
    BY <2>3
  <2>5. <<>> \in Seq(Token)
    OBVIOUS
  <2>6. Named'
    BY <1>2 DEF Named
  <2> QED BY <1>1, <1>2, <2>1, <2>4, <2>5, <2>6 DEF MessageInv, Counts
<1>4. saved \in Seq(Message) /\ seq \in Nat /\ seq >= 1
  BY DEF MessageInv, ListsOK
<1>5. /\ \A i, j \in DOMAIN saved : i < j => saved[i].id < saved[j].id
      /\ \A i \in DOMAIN saved : saved[i].id \in 1..seq /\ ~saved[i].streaming
  BY DEF MessageInv, ListsOK, Growing
<1>6. CASE saved = <<>>
  <2>1. messages' = <<Welcome>> /\ seq' = seq /\ saved' = <<>> /\ DOMAIN saved = {}
    BY <1>1, <1>6
  <2>2. Growing(messages)' /\ Growing(saved)'
    BY <1>4, <2>1, WelcomeFacts DEF Growing
  <2>3. ListsOK'
    BY <1>4, <1>6, <2>1, <2>2, WelcomeFacts DEF ListsOK
  <2>4. Unasked'
    BY <1>1, <1>6, <2>1, WelcomeFacts DEF MessageInv, Unasked
  <2>5. Ended'
    BY <1>1, <1>6, <2>1, WelcomeFacts DEF Ended, Settled
  <2>6. Filling' /\ Coming'
    BY <1>1, <1>2 DEF Filling, Coming
  <2> QED BY <1>3, <2>3, <2>4, <2>5, <2>6 DEF MessageInv
<1>7. CASE saved # <<>>
  <2>1. PICK len \in Nat : len = Len(saved) /\ len # 0 /\ DOMAIN saved = 1..len
    BY <1>4, <1>7
  <2>2. \A i \in DOMAIN saved : saved[i].id <= saved[len].id
    <3> SUFFICES ASSUME NEW i \in DOMAIN saved PROVE saved[i].id <= saved[len].id
      OBVIOUS
    <3>1. len \in DOMAIN saved /\ (i = len \/ i < len)
      BY <2>1
    <3>2. saved[i].id \in Nat /\ saved[len].id \in Nat
      BY <1>4, <1>5, <3>1
    <3> QED BY <1>5, <3>1, <3>2
  <2>3. saved[len].id \in ids /\ \A m \in ids : m <= saved[len].id
    BY <2>1, <2>2
  <2>4. seq' \in ids /\ \A m \in ids : m <= seq'
    BY <1>1, <1>7, <2>3
  <2>5. seq' \in Nat /\ seq' >= 1 /\ \A i \in DOMAIN saved : saved[i].id \in 1..seq'
    <3>1. \A m \in ids : m \in Nat /\ m >= 1
      BY <1>4, <1>5
    <3>2. \A i \in DOMAIN saved : saved[i].id \in ids
      OBVIOUS
    <3> HIDE DEF ids
    <3> QED BY <2>4, <3>1, <3>2
  <2>6. messages' = saved /\ saved' = saved
    BY <1>1, <1>7
  <2>7. ListsOK'
    <3>1. Growing(messages)' /\ Growing(saved)'
      BY <1>5, <2>5, <2>6 DEF Growing
    <3> QED BY <1>4, <1>5, <2>5, <2>6, <3>1 DEF ListsOK
  <2>8. Unasked'
    BY <1>1, <2>6 DEF MessageInv, Unasked
  <2>9. Filling' /\ Coming'
    BY <1>1, <1>2 DEF Filling, Coming
  <2>10. Ended'
    <3> SUFFICES ASSUME ~crossed PROVE Settled(saved)'
      BY <1>1, <2>6 DEF Ended, Settled, Whole
    <3>1. Settled(saved)
      BY DEF MessageInv, Ended
    <3>2. pc \in [Queries -> {"idle", "fetch", "read", "sleep", "end"}]
      BY DEF MessageInv, Inv, ControlTypeOK
    <3>3. ASSUME NEW q \in Queries, pc'[q] = "end", q \notin cut' PROVE pc[q] = "end" /\ q \notin cut
      BY <1>1, <3>2, <3>3 DEF Alive
    <3> QED BY <1>1, <2>6, <3>1, <3>3 DEF Settled, Whole
  <2> QED BY <1>3, <2>7, <2>8, <2>9, <2>10 DEF MessageInv
<1> QED BY <1>6, <1>7

LEMMA InitHasMessageInv == ASSUME Init PROVE MessageInv
<1>1. Inv
  BY InitHasInv
<1>2. Alive = {}
  BY DEF Init, Alive
<1>3. <<>> \in Seq(Token) /\ <<>> \in Seq(Message) /\ DOMAIN <<>> = {}
  OBVIOUS
<1>4. Counts /\ Named
  <2>1. {q \in Queries : pc[q] = "end"} = {}
    BY DEF Init
  <2>2. Cardinality({q \in Queries : pc[q] = "end"}) = 0
    BY <2>1, FS_EmptySet
  <2>3. idleTimers = 0 /\ 0 \in 0..MaxNews /\ 0 \in 0..MaxReloads
    BY DEF Init
  <2>4. idleTimers \in Nat /\ idleTimers <= Cardinality({q \in Queries : pc[q] = "end"})
    BY <2>2, <2>3
  <2>5. Named
    BY <1>2 DEF Named
  <2> QED BY <1>3, <2>3, <2>4, <2>5 DEF Init, Counts
<1>5. ListsOK
  <2>1. messages = <<Welcome>> /\ saved = <<>> /\ seq = 1
    BY DEF Init
  <2>2. Growing(messages)
    BY <2>1, WelcomeFacts DEF Growing
  <2>3. Growing(saved)
    BY <1>3, <2>1 DEF Growing
  <2> QED BY <1>3, <2>1, <2>2, <2>3, WelcomeFacts DEF ListsOK
<1>6. Unasked
  BY <1>3, WelcomeFacts DEF Init, Unasked
<1>7. Filling
  BY <1>2 DEF Filling
<1>8. Ended /\ Coming
  BY <1>3, WelcomeFacts DEF Init, Ended, Settled, Coming
<1> QED BY <1>1, <1>4, <1>5, <1>6, <1>7, <1>8 DEF MessageInv

\* A query that is sent again or goes on.
LEMMA GoesOnKeepsMessages ==
    ASSUME MessageInv, Inv', NEW q \in Alive, NEW stage \in {"fetch", "read", "sleep"},
           pc' = [pc EXCEPT ![q] = stage], timers' \subseteq Token,
           UNCHANGED <<msg, pending, raf, frame, got, messages, saved, seq, cut, crossed,
                       idleTimers, news, reloads>>
    PROVE  MessageInv'
<1>1. pc \in [Queries -> {"idle", "fetch", "read", "sleep", "end"}] /\ q \in Queries
  BY DEF MessageInv, Inv, ControlTypeOK, Alive
<1>2. \A p \in Queries : /\ pc'[p] = "idle" <=> pc[p] = "idle"
                         /\ pc'[p] = "end" <=> pc[p] = "end"
                         /\ p \in Alive' <=> p \in Alive
  BY <1>1 DEF Alive
<1>3. idleTimers' \in 0..idleTimers
  BY DEF MessageInv, Counts
<1> QED BY <1>2, <1>3, OnwardKeeps

LEMMA StepKeepsMessages ==
    ASSUME MessageInv, Inv', NEW q \in Queries, Step(q)
    PROVE  MessageInv'
<1>1. timers \subseteq Token /\ <<q, attempt[q]>> \in Token
  BY DEF MessageInv, Counts, Inv, ControlTypeOK, Token
<1>2. CASE Receive(q)
  BY <1>2, ReceiveKeeps
<1>3. CASE ~Receive(q)
  <2>1. q \in Alive /\ UNCHANGED <<msg, got, cut, raf, frame, news, reloads>>
    BY <1>3 DEF Step, Opens, Declined, Denied, Fails, Aborts, Wake, Completes, BreaksOff, others,
                frames, Alive
  <2>2. timers' \subseteq Token
    BY <1>1, <1>3 DEF Step, Opens, Declined, Denied, Fails, Aborts, Wake, Completes, BreaksOff,
                      Cleared
  <2>3. CASE Finish(q)
    BY <2>1, <2>2, <2>3, FinishKeeps
  <2>4. CASE GiveUp(q)
    BY <2>1, <2>2, <2>4, GiveUpKeeps
  <2>5. CASE Silently(q)
    BY <2>1, <2>2, <2>5, SilentlyKeepsMessages
  <2>6. CASE Retried(q)
    BY <2>1, <2>2, <2>6, GoesOnKeepsMessages DEF Retried
  <2>7. CASE Opens(q)
    BY <2>1, <2>2, <2>7, GoesOnKeepsMessages DEF Opens
  <2>8. CASE Wake(q) /\ ~Silently(q)
    BY <2>1, <2>2, <2>8, GoesOnKeepsMessages DEF Wake, store
  <2> QED BY <1>3, <2>3, <2>4, <2>5, <2>6, <2>7, <2>8
          DEF Step, Declined, Denied, Fails, Caught, Aborts, Completes, BreaksOff
<1> QED BY <1>2, <1>3

LEMMA NextKeepsMessages == ASSUME MessageInv, [Next]_vars PROVE MessageInv'
<1>1. Inv'
  BY StepKeepsInv DEF MessageInv
<1>2. timers \subseteq Token /\ idleTimers \in Nat
  BY DEF MessageInv, Counts
<1>3. ASSUME NEW q \in Queries, Submit(q) PROVE MessageInv'
  BY <1>1, <1>3, SubmitKeepsMessages
<1>4. ASSUME NEW q \in Queries, Step(q) PROVE MessageInv'
  BY <1>1, <1>4, StepKeepsMessages
<1>5. ASSUME UNCHANGED <<pc, msg, pending, raf, frame, got, messages, saved, seq, cut, crossed,
                         news, reloads>>,
             timers' \subseteq timers, idleTimers' \in {idleTimers, idleTimers - 1},
             idleTimers' # idleTimers => idleTimers > 0
      PROVE  MessageInv'
  <2>1. timers' \subseteq Token /\ idleTimers' \in 0..idleTimers
    BY <1>2, <1>5
  <2>2. \A q \in Queries : /\ pc'[q] = "idle" <=> pc[q] = "idle"
                           /\ pc'[q] = "end" <=> pc[q] = "end"
                           /\ q \in Alive' <=> q \in Alive
    BY <1>5 DEF Alive
  <2> QED BY <1>1, <1>5, <2>1, <2>2, OnwardKeeps
<1>6. ASSUME NEW t \in timers, Timeout(t) PROVE MessageInv'
  BY <1>5, <1>6 DEF Timeout, store, frames
<1>7. CASE IdleTimeout
  BY <1>5, <1>7 DEF IdleTimeout, refs
<1>8. CASE Abort
  BY <1>1, <1>8, AbortKeepsMessages
<1>9. CASE NewConversation
  BY <1>1, <1>9, NewKeepsMessages
<1>10. CASE Reload
  BY <1>1, <1>10, ReloadKeepsMessages
<1>11. CASE Frame
  BY <1>1, <1>11, FrameKeeps
<1>12. CASE UNCHANGED vars
  BY <1>5, <1>12 DEF vars, refs, store, history
<1> QED BY <1>3, <1>4, <1>6, <1>7, <1>8, <1>9, <1>10, <1>11, <1>12 DEF Next

\* The messages' books are kept whatever users, servers, timers and reloads do.
THEOREM MessageInvariance == Spec => []MessageInv
BY InitHasMessageInv, NextKeepsMessages, PTL DEF Spec

LEMMA MessageInvIsEnough == ASSUME MessageInv PROVE MessagesConsistent
<1>1. TypeOK
  <2>1. /\ \A i, j \in DOMAIN messages : messages[i].id = messages[j].id => i = j
        /\ \A i \in DOMAIN messages : messages[i].id <= seq
    <3>1. /\ \A i, j \in DOMAIN messages : i < j => messages[i].id < messages[j].id
          /\ \A i \in DOMAIN messages : messages[i].id \in 1..seq
          /\ messages \in Seq(Message) /\ seq \in Nat
      BY DEF MessageInv, ListsOK, Growing
    <3>2. ASSUME NEW i \in DOMAIN messages, NEW j \in DOMAIN messages,
                 messages[i].id = messages[j].id
          PROVE  i = j
      <4>1. i \in Nat /\ j \in Nat /\ messages[i].id \in Nat
        BY <3>1
      <4>2. ~(i < j) /\ ~(j < i)
        BY <3>1, <3>2, <4>1
      <4> QED BY <4>1, <4>2
    <3> QED BY <3>1, <3>2
  <2>2. idleTimers \in 0..Cardinality(Queries)
    <3>1. {q \in Queries : pc[q] = "end"} \in SUBSET Queries
      OBVIOUS
    <3>2. /\ Cardinality({q \in Queries : pc[q] = "end"}) <= Cardinality(Queries)
          /\ Cardinality({q \in Queries : pc[q] = "end"}) \in Nat
      BY <3>1, QuerySets
    <3>3. Cardinality(Queries) \in Nat
      BY QuerySets
    <3>4. idleTimers \in Nat /\ idleTimers <= Cardinality({q \in Queries : pc[q] = "end"})
      BY DEF MessageInv, Counts
    <3> HIDE DEF Queries
    <3> QED BY <3>2, <3>3, <3>4
  <2> QED BY <2>1, <2>2 DEF MessageInv, Inv, ControlTypeOK, Counts, ListsOK, TypeOK
<1>2. AnswerIsItsTokens
  <2> SUFFICES ASSUME NEW q \in Queries, NEW i \in DOMAIN messages, messages[i].of = q,
                      ~messages[i].streaming, ~crossed, q \notin cut
               PROVE  messages[i].content \in {got[q], Append(got[q], ErrorText)}
    BY DEF AnswerIsItsTokens
  <2>1. pc[q] # "idle"
    BY DEF MessageInv, Unasked
  <2>2. q \notin Alive
    BY DEF MessageInv, Filling
  <2>3. pc[q] = "end"
    BY <2>1, <2>2 DEF MessageInv, Inv, ControlTypeOK, Alive
  <2> QED BY <2>3 DEF MessageInv, Ended, Settled, Whole
<1>3. FrameIsComing
  BY DEF MessageInv, Coming, FrameIsComing
<1> QED BY <1>1, <1>2, <1>3 DEF MessagesConsistent

\* As long as queries do not run over each other, a finished answer is what its query
\* received, in order and each token once, also across retries, reloads and new
\* conversations; and until the first cancel a frame is coming for what is buffered.
THEOREM MessagesStayConsistent == Spec => []MessagesConsistent
BY MessageInvariance, MessageInvIsEnough, PTL
=============================================================================
