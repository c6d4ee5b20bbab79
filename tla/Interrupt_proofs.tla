--------------------------- MODULE Interrupt_proofs ---------------------------
(***************************************************************************)
(* The safety of forced stops, for any number of commands and workers.     *)
(***************************************************************************)
EXTENDS Interrupt, TLAPS

\* Command k is at worker w, and may still run there.
On(k, w) == k \in body[w].mail \cup body[w].has
Alive(k, w) == RunsOn(k, w) \/ MayRunOn(k, w)

\* The steps of a waiter.
Early == {"idle", "locate", "pause", "relocate", "prepare"}
Late == {"ack", "release", "begin", "restart"}
Ending == {"unhold", "resume", "ungate", "end"}

-----------------------------------------------------------------------------
(* Types.                                                                  *)

TaskState == [at: {"unsent", "queued", "placed", "over", "gone"}, on: Place]
LossState == [unknown: BOOLEAN, pending: Place]
SeatState == [here: BOOLEAN, status: {"running", "paused"}, fence: Key, restart: Key]
BodyState == [life: {"new", "up", "dead"}, gate: Key, inside: Key,
              mail: SUBSET Command, has: SUBSET Command, ended: SUBSET Command]
WaiterState == [at: Early \cup Late \cup Ending, worker: Place, entered: BOOLEAN,
                evidence: SUBSET Command, restarted: BOOLEAN, lost: BOOLEAN,
                outcome: {"none", "confirmed", "failed"}]

Types ==
    /\ task \in [Command -> TaskState] /\ loss \in [Command -> LossState]
    /\ hold \subseteq Command
    /\ seat \in [Worker -> SeatState] /\ body \in [Worker -> BodyState]
    /\ waiter \in [Command -> WaiterState]
    /\ told \in [Worker -> Seq({"running", "paused"})]

-----------------------------------------------------------------------------
(* Workers and tasks.                                                      *)

\* A worker process holds commands only while it is up, each at one stage.
BodyInv(w) ==
    /\ body[w].life # "up" =>
          /\ body[w].gate = NoCommand /\ body[w].inside = NoCommand
          /\ body[w].has = {} /\ body[w].ended = {}
    /\ body[w].life = "new" => body[w].mail = {}
    /\ body[w].ended \subseteq body[w].has
    /\ body[w].mail \cap body[w].has = {}
    /\ body[w].inside # NoCommand => body[w].inside \in body[w].has \ body[w].ended

\* A fence keeps a worker paused; a restart is begun behind a fence, of a
\* worker whose gate lets nobody in.
SeatInv(w) ==
    /\ seat[w].here => body[w].life # "new"
    /\ ~seat[w].here => seat[w].fence = NoCommand /\ seat[w].restart = NoCommand
    /\ seat[w].fence # NoCommand => seat[w].status = "paused"
    /\ seat[w].restart # NoCommand =>
          LET k == seat[w].restart IN
          /\ seat[w].fence = k
          /\ waiter[k].restarted /\ Its(k) = w
          /\ Up(w) => body[w].gate = k /\ body[w].inside \in {k, NoCommand}

\* Where the scheduler places a command, and where it may be alive against the
\* scheduler's knowledge: only after a loss.
TaskInv(k) ==
    /\ task[k].at = "placed" <=> task[k].on # NoWorker
    /\ task[k].on # NoWorker => seat[task[k].on].here
    /\ loss[k].pending # NoWorker =>
          /\ task[k].at \in {"queued", "gone"}
          /\ ~seat[loss[k].pending].here /\ body[loss[k].pending].life # "new"
    /\ \A w \in Worker :
          /\ On(k, w) /\ seat[w].here => Placed(k, w) \/ task[k].at \in {"over", "gone"}
          /\ Alive(k, w) => \/ Placed(k, w) \/ task[k].at = "gone"
                            \/ loss[k].unknown \/ loss[k].pending = w

-----------------------------------------------------------------------------
(* Waiters.                                                                *)

\* What a waiter is, by its step.
PhaseInv(k) ==
    /\ waiter[k].at = "idle" => Its(k) = NoWorker
    /\ Its(k) # NoWorker => body[Its(k)].life # "new"
    /\ waiter[k].at \in {"pause", "relocate", "release", "begin", "restart", "resume", "ungate"}
          => Its(k) # NoWorker
    /\ waiter[k].at \in Early => task[k].at # "gone" /\ waiter[k].outcome = "none"
    /\ waiter[k].restarted => waiter[k].at \in {"restart", "unhold", "end"} /\ Its(k) # NoWorker
    /\ waiter[k].at = "restart" => waiter[k].restarted
    /\ waiter[k].at = "begin" => waiter[k].entered
    /\ waiter[k].at \in Late =>
          task[k].at = "gone" /\ \A w \in Worker : Alive(k, w) => w = Its(k)

\* From its pause on the waiter has the worker: nothing enters it, and what was
\* told apart there, queued from entered, stays true.
GripInv(k) ==
    Its(k) # NoWorker =>
        /\ waiter[k].at \in {"prepare", "ack", "release", "begin"} =>
              /\ k \notin body[Its(k)].mail
              /\ Up(Its(k)) =>
                    /\ body[Its(k)].gate = k
                    /\ IF waiter[k].entered THEN body[Its(k)].inside \in {k, NoCommand}
                       ELSE body[Its(k)].inside # k
        /\ waiter[k].at = "prepare" /\ seat[Its(k)].here => Placed(k, Its(k)) \/ task[k].at = "over"

\* What a waiter has put into the pool it still knows of.
TrailInv(k) ==
    /\ \A w \in Worker :
          /\ Up(w) /\ body[w].gate = k =>
                \/ ~seat[w].here \/ waiter[k].lost \/ waiter[k].restarted
                \/ Its(k) = w /\ waiter[k].at \in {"relocate", "prepare", "ack", "release", "begin",
                                                   "unhold", "resume", "ungate"}
          /\ seat[w].fence = k =>
                \/ waiter[k].lost \/ waiter[k].restarted
                \/ Its(k) = w /\ waiter[k].at \in {"ack", "release", "begin", "unhold", "resume"}
    /\ k \in hold => \/ waiter[k].lost
                     \/ waiter[k].at \in Early \cup Late \cup {"unhold"}

\* The evidence of a restart covers every command it may displace.
EvidenceInv(k) ==
    waiter[k].at = "restart" =>
        /\ seat[Its(k)].here => seat[Its(k)].restart = k
        /\ \A j \in Command : Placed(j, Its(k)) \/ loss[j].pending = Its(k)
                                 => j \in waiter[k].evidence

\* What is confirmed is over.
OutcomeInv(k) ==
    waiter[k].outcome = "confirmed" =>
        /\ waiter[k].at \in Ending
        /\ task[k].at = "gone"
        /\ \A w \in Worker : ~Alive(k, w)
        /\ waiter[k].restarted =>
              ~seat[Its(k)].here /\ \A j \in Command : loss[j].pending # Its(k)

ForceInv ==
    /\ Types
    /\ \A w \in Worker : BodyInv(w) /\ SeatInv(w)
    /\ \A k \in Command : /\ TaskInv(k) /\ PhaseInv(k) /\ GripInv(k)
                          /\ TrailInv(k) /\ EvidenceInv(k) /\ OutcomeInv(k)

LEMMA ForceStarts == IInit => ForceInv
  <1> SUFFICES ASSUME IInit PROVE ForceInv
    OBVIOUS
  <1>1. Types
    BY DEF IInit, Types, NotAsked, Absent, Unborn, Place, Key, TaskState, LossState, SeatState,
       BodyState, WaiterState, Early
  <1>2. \A w \in Worker : BodyInv(w) /\ SeatInv(w)
    BY DEF IInit, BodyInv, SeatInv, NotAsked, Absent, Unborn, Up
  <1>3. \A k \in Command : TaskInv(k) /\ PhaseInv(k) /\ GripInv(k)
    BY NamesAssumption DEF IInit, TaskInv, PhaseInv, GripInv, NotAsked, Absent, Unborn, On, Alive,
       RunsOn, MayRunOn, Placed, Up, Its, Early, Late
  <1>4. \A k \in Command : TrailInv(k) /\ EvidenceInv(k) /\ OutcomeInv(k)
    BY NamesAssumption DEF IInit, TrailInv, EvidenceInv, OutcomeInv, NotAsked, Absent, Unborn, Up
  <1> QED
    BY <1>1, <1>2, <1>3, <1>4 DEF ForceInv

LEMMA RegisterKeeps == ASSUME ForceInv, NEW k \in Command, Register(k) PROVE ForceInv'
  <1>1. /\ task[k].at = "unsent" /\ task' = [task EXCEPT ![k] = [at |-> "queued", on |-> NoWorker]]
        /\ UNCHANGED <<hold, loss, seat, body, told, waiter>>
    BY DEF Register, Task
  <1>2. Types
    BY DEF ForceInv
  <1>3. Types'
    BY <1>1, <1>2 DEF Types, Place, TaskState
  <1>4. \A w \in Worker : (BodyInv(w) /\ SeatInv(w))'
    BY <1>1 DEF ForceInv, BodyInv, SeatInv, Up, Its
  <1>5. \A j \in Command : TaskInv(j)'
    BY <1>1, <1>2, NamesAssumption DEF ForceInv, Types, TaskInv, On, Alive, RunsOn, MayRunOn, Placed, Up, TaskState
  <1>6. \A j \in Command : (PhaseInv(j) /\ GripInv(j))'
    BY <1>1, <1>2, NamesAssumption DEF ForceInv, Types, TaskInv, PhaseInv, GripInv, On, Alive, RunsOn, MayRunOn, Placed, Up, Its, Early, Late
  <1>7. \A j \in Command : (TrailInv(j) /\ EvidenceInv(j) /\ OutcomeInv(j))'
    BY <1>1, <1>2, NamesAssumption DEF ForceInv, Types, TaskInv, TrailInv, EvidenceInv, OutcomeInv, On, Alive, RunsOn, MayRunOn, Placed, Up, Its
  <1> QED
    BY <1>3, <1>4, <1>5, <1>6, <1>7 DEF ForceInv

LEMMA JoinKeeps == ASSUME ForceInv, NEW w \in Worker, Join(w) PROVE ForceInv'
  <1>1. Types
    BY DEF ForceInv
  <1>2. /\ body[w].life = "new"
        /\ body' = [body EXCEPT ![w] = [Unborn EXCEPT !.life = "up"]]
        /\ seat' = [seat EXCEPT ![w] = [Absent EXCEPT !.here = TRUE]]
        /\ UNCHANGED <<task, hold, loss, told, waiter>>
    BY DEF Join, Body, Seat
  <1>3. /\ body' \in [Worker -> BodyState] /\ \A v \in Worker : v # w => body'[v] = body[v]
        /\ body'[w].life = "up" /\ body'[w].gate = NoCommand /\ body'[w].inside = NoCommand
        /\ body'[w].mail = {} /\ body'[w].has = {} /\ body'[w].ended = {}
    BY <1>1, <1>2 DEF Types, Unborn, BodyState, Key
  <1>4. /\ seat' \in [Worker -> SeatState] /\ \A v \in Worker : v # w => seat'[v] = seat[v]
        /\ seat'[w].here /\ seat'[w].fence = NoCommand /\ seat'[w].restart = NoCommand
    BY <1>1, <1>2, <1>3 DEF Types, Absent, SeatState, Key
  <1>5. Types'
    BY <1>1, <1>2, <1>3, <1>4 DEF Types
  <1>6. ASSUME NEW v \in Worker PROVE BodyInv(v)'
    BY <1>2, <1>3, <1>4 DEF ForceInv, BodyInv
  <1>7. ASSUME NEW v \in Worker PROVE SeatInv(v)'
    BY <1>2, <1>3, <1>4 DEF ForceInv, SeatInv, Up, Its
  <1>8. ASSUME NEW j \in Command PROVE TaskInv(j)'
    BY <1>2, <1>3, <1>4, NamesAssumption DEF ForceInv, TaskInv, On, Alive, RunsOn, MayRunOn,
       Placed, Up
  <1>9. ASSUME NEW j \in Command PROVE PhaseInv(j)'
    BY <1>2, <1>3, <1>4, NamesAssumption DEF ForceInv, PhaseInv, Alive, RunsOn, MayRunOn,
       Up, Its, Early, Late
  <1>10. ASSUME NEW j \in Command PROVE GripInv(j)'
    BY <1>2, <1>3, <1>4, NamesAssumption DEF ForceInv, GripInv, TaskInv, SeatInv, BodyInv,
       PhaseInv, On, Alive, RunsOn, MayRunOn, Placed, Up, Its, Early, Late
  <1>11. ASSUME NEW j \in Command PROVE TrailInv(j)'
    BY <1>2, <1>3, <1>4, NamesAssumption DEF ForceInv, TrailInv, Up, Its, Early, Late
  <1>12. ASSUME NEW j \in Command PROVE EvidenceInv(j)'
    BY <1>2, <1>3, <1>4, NamesAssumption DEF ForceInv, EvidenceInv, SeatInv, TaskInv,
       PhaseInv, On, Alive, RunsOn, MayRunOn, Placed, Up, Its, Early, Late
  <1>13. ASSUME NEW j \in Command PROVE OutcomeInv(j)'
    BY <1>2, <1>3, <1>4, NamesAssumption DEF ForceInv, OutcomeInv, PhaseInv, TaskInv,
       BodyInv, On, Alive, RunsOn, MayRunOn, Placed, Up, Its, Early, Late, Ending
  <1> QED
    BY <1>5, <1>6, <1>7, <1>8, <1>9, <1>10, <1>11, <1>12, <1>13 DEF ForceInv

LEMMA AssignKeeps == ASSUME ForceInv, NEW k \in Command, NEW w \in Worker, Assign(k, w) PROVE ForceInv'
  <1>1. Types
    BY DEF ForceInv
  <1>2. /\ task[k].at = "queued" /\ loss[k].pending = NoWorker
        /\ seat[w].here /\ seat[w].status = "running"
        /\ task' = [task EXCEPT ![k] = [at |-> "placed", on |-> w]]
        /\ body' = [body EXCEPT ![w] = [body[w] EXCEPT !.mail = body[w].mail \cup {k}]]
        /\ UNCHANGED <<hold, loss, seat, told, waiter>>
    BY DEF Assign, Task, Body, Runnable
  <1>3. /\ body' \in [Worker -> BodyState] /\ \A v \in Worker : v # w => body'[v] = body[v]
        /\ body'[w].life = body[w].life
        /\ body'[w].gate = body[w].gate
        /\ body'[w].inside = body[w].inside
        /\ body'[w].mail = body[w].mail \cup {k}
        /\ body'[w].has = body[w].has
        /\ body'[w].ended = body[w].ended
    BY <1>1, <1>2 DEF Types, BodyState, Key
  <1>4. /\ task' \in [Command -> TaskState] /\ \A j \in Command : j # k => task'[j] = task[j]
        /\ task'[k].at = "placed" /\ task'[k].on = w
    BY <1>1, <1>2, <1>3 DEF Types, TaskState, Place
  <1>5. Types'
    BY <1>1, <1>2, <1>3, <1>4 DEF Types
  <1>6. ASSUME NEW v \in Worker PROVE BodyInv(v)'
    <2>1. BodyInv(v) /\ BodyInv(w) /\ SeatInv(w) /\ TaskInv(k)
      BY DEF ForceInv
    <2>2. k \notin body[w].has
      BY <1>1, <1>2, <1>3, <1>4, <2>1, NamesAssumption DEF TaskInv, On, Placed
    <2>3. body[w].life # "new"
      BY <1>1, <1>2, <1>3, <1>4, <2>1 DEF SeatInv
    <2>4. CASE v # w
      BY <1>1, <1>2, <1>3, <1>4, <2>1, <2>4 DEF BodyInv
    <2>5. body'[w].mail \cap body'[w].has = {}
      BY <1>1, <1>2, <1>3, <1>4, <2>1, <2>2 DEF BodyInv
    <2>6. CASE v = w
      BY <1>1, <1>2, <1>3, <1>4, <2>1, <2>3, <2>5, <2>6 DEF BodyInv
    <2> QED
      BY <2>4, <2>6
  <1>7. ASSUME NEW v \in Worker PROVE SeatInv(v)'
    BY <1>2, <1>3, <1>4 DEF ForceInv, SeatInv, Up, Its
  <1>8. ASSUME NEW j \in Command PROVE TaskInv(j)'
    BY <1>2, <1>3, <1>4, NamesAssumption DEF ForceInv, TaskInv, On, Alive, RunsOn, MayRunOn,
       Placed, Up
  <1>9. ASSUME NEW j \in Command PROVE PhaseInv(j)'
    BY <1>2, <1>3, <1>4 DEF ForceInv, PhaseInv, Alive, RunsOn, MayRunOn, Up, Its, Early,
       Late
  <1>10. ASSUME NEW j \in Command PROVE GripInv(j)'
    BY <1>2, <1>3, <1>4, NamesAssumption DEF ForceInv, GripInv, TaskInv, SeatInv, BodyInv,
       PhaseInv, On, Alive, RunsOn, MayRunOn, Placed, Up, Its, Early, Late
  <1>11. ASSUME NEW j \in Command PROVE TrailInv(j)'
    BY <1>2, <1>3, <1>4 DEF ForceInv, TrailInv, Up, Its, Early, Late
  <1>12. ASSUME NEW j \in Command PROVE EvidenceInv(j)'
    BY <1>2, <1>3, <1>4, NamesAssumption DEF ForceInv, EvidenceInv, SeatInv, TaskInv,
       PhaseInv, On, Alive, RunsOn, MayRunOn, Placed, Up, Its, Early, Late
  <1>13. ASSUME NEW j \in Command PROVE OutcomeInv(j)'
    BY <1>2, <1>3, <1>4 DEF ForceInv, OutcomeInv, Alive, RunsOn, MayRunOn, Up, Its, Ending
  <1> QED
    BY <1>5, <1>6, <1>7, <1>8, <1>9, <1>10, <1>11, <1>12, <1>13 DEF ForceInv

LEMMA ReceiveKeeps == ASSUME ForceInv, NEW k \in Command, NEW w \in Worker, Receive(k, w) PROVE ForceInv'
  <1>1. Types
    BY DEF ForceInv
  <1>2. /\ Up(w) /\ k \in body[w].mail
        /\ body' = [body EXCEPT ![w] = [body[w] EXCEPT !.mail = body[w].mail \ {k}, !.has = body[w].has \cup {k}]]
        /\ UNCHANGED <<task, hold, loss, seat, told, waiter>>
    BY DEF Receive, Body, pool
  <1>3. /\ body' \in [Worker -> BodyState] /\ \A v \in Worker : v # w => body'[v] = body[v]
        /\ body'[w].life = body[w].life
        /\ body'[w].gate = body[w].gate
        /\ body'[w].inside = body[w].inside
        /\ body'[w].mail = body[w].mail \ {k}
        /\ body'[w].has = body[w].has \cup {k}
        /\ body'[w].ended = body[w].ended
    BY <1>1, <1>2 DEF Types, BodyState, Key
  <1>4. Types'
    BY <1>1, <1>2, <1>3 DEF Types
  <1>5. ASSUME NEW v \in Worker PROVE BodyInv(v)'
    BY <1>2, <1>3 DEF ForceInv, BodyInv, Up
  <1>6. ASSUME NEW v \in Worker PROVE SeatInv(v)'
    BY <1>2, <1>3 DEF ForceInv, SeatInv, Up, Its
  <1>7. ASSUME NEW j \in Command PROVE TaskInv(j)'
    BY <1>2, <1>3 DEF ForceInv, TaskInv, On, Alive, RunsOn, MayRunOn, Placed, Up
  <1>8. ASSUME NEW j \in Command PROVE PhaseInv(j)'
    BY <1>2, <1>3 DEF ForceInv, PhaseInv, Alive, RunsOn, MayRunOn, Up, Its, Early, Late
  <1>9. ASSUME NEW j \in Command PROVE GripInv(j)'
    BY <1>2, <1>3 DEF ForceInv, GripInv, Placed, Up, Its
  <1>10. ASSUME NEW j \in Command PROVE TrailInv(j)'
    BY <1>2, <1>3 DEF ForceInv, TrailInv, Up, Its, Early, Late
  <1>11. ASSUME NEW j \in Command PROVE EvidenceInv(j)'
    BY <1>2, <1>3 DEF ForceInv, EvidenceInv, Placed, Up, Its
  <1>12. ASSUME NEW j \in Command PROVE OutcomeInv(j)'
    BY <1>2, <1>3 DEF ForceInv, OutcomeInv, Alive, RunsOn, MayRunOn, Up, Its, Ending
  <1> QED
    BY <1>4, <1>5, <1>6, <1>7, <1>8, <1>9, <1>10, <1>11, <1>12 DEF ForceInv

LEMMA EnterKeeps == ASSUME ForceInv, NEW k \in Command, NEW w \in Worker, Enter(k, w) PROVE ForceInv'
  <1>1. Types
    BY DEF ForceInv
  <1>2. /\ Up(w) /\ body[w].gate = NoCommand /\ body[w].inside = NoCommand
        /\ k \in body[w].has \ body[w].ended
        /\ body' = [body EXCEPT ![w] = [body[w] EXCEPT !.inside = k]]
        /\ UNCHANGED <<task, hold, loss, seat, told, waiter>>
    BY DEF Enter, Body, pool
  <1>3. /\ body' \in [Worker -> BodyState] /\ \A v \in Worker : v # w => body'[v] = body[v]
        /\ body'[w].life = body[w].life
        /\ body'[w].gate = body[w].gate
        /\ body'[w].inside = k
        /\ body'[w].mail = body[w].mail
        /\ body'[w].has = body[w].has
        /\ body'[w].ended = body[w].ended
    BY <1>1, <1>2 DEF Types, BodyState, Key
  <1>4. Types'
    BY <1>1, <1>2, <1>3 DEF Types
  <1>5. ASSUME NEW v \in Worker PROVE BodyInv(v)'
    BY <1>2, <1>3 DEF ForceInv, BodyInv, Up
  <1>6. ASSUME NEW v \in Worker PROVE SeatInv(v)'
    BY <1>2, <1>3 DEF ForceInv, SeatInv, Up, Its
  <1>7. ASSUME NEW j \in Command PROVE TaskInv(j)'
    BY <1>2, <1>3 DEF ForceInv, TaskInv, On, Alive, RunsOn, MayRunOn, Placed, Up
  <1>8. ASSUME NEW j \in Command PROVE PhaseInv(j)'
    BY <1>2, <1>3 DEF ForceInv, PhaseInv, Alive, RunsOn, MayRunOn, Up, Its, Early, Late
  <1>9. ASSUME NEW j \in Command PROVE GripInv(j)'
    BY <1>2, <1>3, NamesAssumption DEF ForceInv, GripInv, Placed, Up, Its
  <1>10. ASSUME NEW j \in Command PROVE TrailInv(j)'
    BY <1>2, <1>3 DEF ForceInv, TrailInv, Up, Its, Early, Late
  <1>11. ASSUME NEW j \in Command PROVE EvidenceInv(j)'
    BY <1>2, <1>3 DEF ForceInv, EvidenceInv, Placed, Up, Its
  <1>12. ASSUME NEW j \in Command PROVE OutcomeInv(j)'
    BY <1>2, <1>3 DEF ForceInv, OutcomeInv, Alive, RunsOn, MayRunOn, Up, Its, Ending
  <1> QED
    BY <1>4, <1>5, <1>6, <1>7, <1>8, <1>9, <1>10, <1>11, <1>12 DEF ForceInv

LEMMA FinishKeeps == ASSUME ForceInv, NEW w \in Worker, Finish(w) PROVE ForceInv'
  <1>1. Types
    BY DEF ForceInv
  <1>2. /\ Up(w) /\ body[w].inside # NoCommand
        /\ body' = [body EXCEPT ![w] = [body[w] EXCEPT !.inside = NoCommand, !.ended = body[w].ended \cup {body[w].inside}]]
        /\ UNCHANGED <<task, hold, loss, seat, told, waiter>>
    BY DEF Finish, Body, pool
  <1>3. /\ body' \in [Worker -> BodyState] /\ \A v \in Worker : v # w => body'[v] = body[v]
        /\ body'[w].life = body[w].life
        /\ body'[w].gate = body[w].gate
        /\ body'[w].inside = NoCommand
        /\ body'[w].mail = body[w].mail
        /\ body'[w].has = body[w].has
        /\ body'[w].ended = body[w].ended \cup {body[w].inside}
    BY <1>1, <1>2, ZenonT(40) DEF Types, BodyState, Key
  <1>4. Types'
    BY <1>1, <1>2, <1>3 DEF Types
  <1>5. ASSUME NEW v \in Worker PROVE BodyInv(v)'
    BY <1>2, <1>3 DEF ForceInv, BodyInv, Up
  <1>6. ASSUME NEW v \in Worker PROVE SeatInv(v)'
    BY <1>2, <1>3 DEF ForceInv, SeatInv, Up, Its
  <1>7. ASSUME NEW j \in Command PROVE TaskInv(j)'
    BY <1>2, <1>3, NamesAssumption DEF ForceInv, TaskInv, On, Alive, RunsOn, MayRunOn,
       Placed, Up
  <1>8. ASSUME NEW j \in Command PROVE PhaseInv(j)'
    BY <1>2, <1>3, NamesAssumption DEF ForceInv, PhaseInv, Alive, RunsOn, MayRunOn, Up, Its,
       Early, Late
  <1>9. ASSUME NEW j \in Command PROVE GripInv(j)'
    BY <1>2, <1>3, NamesAssumption DEF ForceInv, GripInv, Placed, Up, Its
  <1>10. ASSUME NEW j \in Command PROVE TrailInv(j)'
    BY <1>2, <1>3 DEF ForceInv, TrailInv, Up, Its, Early, Late
  <1>11. ASSUME NEW j \in Command PROVE EvidenceInv(j)'
    BY <1>2, <1>3 DEF ForceInv, EvidenceInv, Placed, Up, Its
  <1>12. ASSUME NEW j \in Command PROVE OutcomeInv(j)'
    BY <1>2, <1>3, NamesAssumption DEF ForceInv, OutcomeInv, Alive, RunsOn, MayRunOn, Up,
       Its, Ending
  <1> QED
    BY <1>4, <1>5, <1>6, <1>7, <1>8, <1>9, <1>10, <1>11, <1>12 DEF ForceInv

LEMMA ReportKeeps == ASSUME ForceInv, NEW k \in Command, NEW w \in Worker, Report(k, w) PROVE ForceInv'
  <1>1. Types
    BY DEF ForceInv
  <1>2. /\ Up(w) /\ k \in body[w].ended
        /\ body' = [body EXCEPT ![w] = [body[w] EXCEPT !.has = body[w].has \ {k}, !.ended = body[w].ended \ {k}]]
        /\ task' = IF Placed(k, w) THEN [task EXCEPT ![k] = [at |-> "over", on |-> NoWorker]] ELSE task
        /\ UNCHANGED <<hold, loss, seat, told, waiter>>
    BY DEF Report, Body, Task
  <1>3. /\ body' \in [Worker -> BodyState] /\ \A v \in Worker : v # w => body'[v] = body[v]
        /\ body'[w].life = body[w].life
        /\ body'[w].gate = body[w].gate
        /\ body'[w].inside = body[w].inside
        /\ body'[w].mail = body[w].mail
        /\ body'[w].has = body[w].has \ {k}
        /\ body'[w].ended = body[w].ended \ {k}
    BY <1>1, <1>2 DEF Types, BodyState, Key
  <1>4. /\ task' \in [Command -> TaskState] /\ \A j \in Command : j # k => task'[j] = task[j]
        /\ IF Placed(k, w) THEN task'[k].at = "over" /\ task'[k].on = NoWorker ELSE task'[k] = task[k]
    BY <1>1, <1>2, <1>3 DEF Types, TaskState, Place
  <1>5. Types'
    BY <1>1, <1>2, <1>3, <1>4 DEF Types
  <1>6. ASSUME NEW v \in Worker PROVE BodyInv(v)'
    BY <1>2, <1>3, <1>4 DEF ForceInv, BodyInv, Placed, Up
  <1>7. ASSUME NEW v \in Worker PROVE SeatInv(v)'
    BY <1>2, <1>3, <1>4 DEF ForceInv, SeatInv, Placed, Up, Its
  <1>8. ASSUME NEW j \in Command PROVE TaskInv(j)'
    BY <1>2, <1>3, <1>4, NamesAssumption DEF ForceInv, TaskInv, BodyInv, SeatInv, On, Alive,
       RunsOn, MayRunOn, Placed, Up, Its
  <1>9. ASSUME NEW j \in Command PROVE PhaseInv(j)'
    BY <1>2, <1>3, <1>4, NamesAssumption DEF ForceInv, PhaseInv, TaskInv, BodyInv, On,
       Alive, RunsOn, MayRunOn, Placed, Up, Its, Early, Late
  <1>10. ASSUME NEW j \in Command PROVE GripInv(j)'
    BY <1>2, <1>3, <1>4 DEF ForceInv, GripInv, Placed, Up, Its
  <1>11. ASSUME NEW j \in Command PROVE TrailInv(j)'
    BY <1>2, <1>3, <1>4 DEF ForceInv, TrailInv, Placed, Up, Its, Early, Late
  <1>12. ASSUME NEW j \in Command PROVE EvidenceInv(j)'
    BY <1>2, <1>3, <1>4, NamesAssumption DEF ForceInv, EvidenceInv, SeatInv, TaskInv,
       PhaseInv, On, Alive, RunsOn, MayRunOn, Placed, Up, Its, Early, Late
  <1>13. ASSUME NEW j \in Command PROVE OutcomeInv(j)'
    BY <1>2, <1>3, <1>4, NamesAssumption DEF ForceInv, OutcomeInv, PhaseInv, TaskInv,
       BodyInv, On, Alive, RunsOn, MayRunOn, Placed, Up, Its, Early, Late, Ending
  <1> QED
    BY <1>5, <1>6, <1>7, <1>8, <1>9, <1>10, <1>11, <1>12, <1>13 DEF ForceInv

LEMMA ForgetKeeps == ASSUME ForceInv, NEW k \in Command, NEW w \in Worker, Forget(k, w) PROVE ForceInv'
  <1>1. Types
    BY DEF ForceInv
  <1>2. /\ Up(w) /\ k \in body[w].has \ body[w].ended
        /\ body[w].inside # k /\ ~Placed(k, w)
        /\ body' = [body EXCEPT ![w] = [body[w] EXCEPT !.has = body[w].has \ {k}]]
        /\ UNCHANGED <<task, hold, loss, seat, told, waiter>>
    BY DEF Forget, Body, pool
  <1>3. /\ body' \in [Worker -> BodyState] /\ \A v \in Worker : v # w => body'[v] = body[v]
        /\ body'[w].life = body[w].life
        /\ body'[w].gate = body[w].gate
        /\ body'[w].inside = body[w].inside
        /\ body'[w].mail = body[w].mail
        /\ body'[w].has = body[w].has \ {k}
        /\ body'[w].ended = body[w].ended
    BY <1>1, <1>2 DEF Types, BodyState, Key
  <1>4. Types'
    BY <1>1, <1>2, <1>3 DEF Types
  <1>5. ASSUME NEW v \in Worker PROVE BodyInv(v)'
    BY <1>2, <1>3 DEF ForceInv, BodyInv, Placed, Up
  <1>6. ASSUME NEW v \in Worker PROVE SeatInv(v)'
    BY <1>2, <1>3 DEF ForceInv, SeatInv, Placed, Up, Its
  <1>7. ASSUME NEW j \in Command PROVE TaskInv(j)'
    BY <1>2, <1>3 DEF ForceInv, TaskInv, On, Alive, RunsOn, MayRunOn, Placed, Up
  <1>8. ASSUME NEW j \in Command PROVE PhaseInv(j)'
    BY <1>2, <1>3 DEF ForceInv, PhaseInv, Alive, RunsOn, MayRunOn, Placed, Up, Its, Early,
       Late
  <1>9. ASSUME NEW j \in Command PROVE GripInv(j)'
    BY <1>2, <1>3 DEF ForceInv, GripInv, Placed, Up, Its
  <1>10. ASSUME NEW j \in Command PROVE TrailInv(j)'
    BY <1>2, <1>3 DEF ForceInv, TrailInv, Placed, Up, Its, Early, Late
  <1>11. ASSUME NEW j \in Command PROVE EvidenceInv(j)'
    BY <1>2, <1>3 DEF ForceInv, EvidenceInv, Placed, Up, Its
  <1>12. ASSUME NEW j \in Command PROVE OutcomeInv(j)'
    BY <1>2, <1>3 DEF ForceInv, OutcomeInv, Alive, RunsOn, MayRunOn, Placed, Up, Its, Ending
  <1> QED
    BY <1>4, <1>5, <1>6, <1>7, <1>8, <1>9, <1>10, <1>11, <1>12 DEF ForceInv

LEMMA DieKeeps == ASSUME ForceInv, NEW w \in Worker, Die(w) PROVE ForceInv'
  <1>1. Types
    BY DEF ForceInv
  <1>2. /\ Up(w)
        /\ body' = [body EXCEPT ![w] = Dead]
        /\ told' = [told EXCEPT ![w] = <<>>]
        /\ UNCHANGED <<task, hold, loss, seat, waiter>>
    BY DEF Die, Body, pool
  <1>3. /\ body' \in [Worker -> BodyState] /\ \A v \in Worker : v # w => body'[v] = body[v]
        /\ body'[w].life = "dead"
        /\ body'[w].gate = NoCommand
        /\ body'[w].inside = NoCommand
        /\ body'[w].mail = {}
        /\ body'[w].has = {}
        /\ body'[w].ended = {}
    BY <1>1, <1>2 DEF Types, BodyState, Key, Dead, Unborn
  <1>4. Types'
    BY <1>1, <1>2, <1>3 DEF Types
  <1>5. ASSUME NEW v \in Worker PROVE BodyInv(v)'
    BY <1>2, <1>3 DEF ForceInv, BodyInv, Up
  <1>6. ASSUME NEW v \in Worker PROVE SeatInv(v)'
    BY <1>2, <1>3 DEF ForceInv, SeatInv, Up, Its
  <1>7. ASSUME NEW j \in Command PROVE TaskInv(j)'
    BY <1>2, <1>3 DEF ForceInv, TaskInv, On, Alive, RunsOn, MayRunOn, Placed, Up
  <1>8. ASSUME NEW j \in Command PROVE PhaseInv(j)'
    BY <1>2, <1>3 DEF ForceInv, PhaseInv, Alive, RunsOn, MayRunOn, Up, Its, Early, Late
  <1>9. ASSUME NEW j \in Command PROVE GripInv(j)'
    BY <1>2, <1>3 DEF ForceInv, GripInv, Placed, Up, Its
  <1>10. ASSUME NEW j \in Command PROVE TrailInv(j)'
    BY <1>2, <1>3 DEF ForceInv, TrailInv, Up, Its, Early, Late
  <1>11. ASSUME NEW j \in Command PROVE EvidenceInv(j)'
    BY <1>2, <1>3 DEF ForceInv, EvidenceInv, Placed, Up, Its
  <1>12. ASSUME NEW j \in Command PROVE OutcomeInv(j)'
    BY <1>2, <1>3 DEF ForceInv, OutcomeInv, Alive, RunsOn, MayRunOn, Up, Its, Ending
  <1> QED
    BY <1>4, <1>5, <1>6, <1>7, <1>8, <1>9, <1>10, <1>11, <1>12 DEF ForceInv

LEMMA HearStatusKeeps == ASSUME ForceInv, NEW w \in Worker, HearStatus(w) PROVE ForceInv'
  <1>1. Types
    BY DEF ForceInv
  <1>2. /\ told[w] # <<>>
        /\ told' = [told EXCEPT ![w] = Tail(@)]
        /\ seat' = IF seat[w].here /\ Heard(w, Head(told[w])) THEN [seat EXCEPT ![w] = [seat[w] EXCEPT !.status = Head(told[w])]]
                   ELSE seat
        /\ UNCHANGED <<task, hold, loss, body, waiter>>
    BY DEF HearStatus, Seat
  <1>3. /\ Head(told[w]) \in {"running", "paused"}
        /\ Tail(told[w]) \in Seq({"running", "paused"})
    BY <1>1, <1>2 DEF Types
  <1>4. /\ seat' \in [Worker -> SeatState] /\ \A v \in Worker : v # w => seat'[v] = seat[v]
        /\ seat'[w].here = seat[w].here /\ seat'[w].fence = seat[w].fence
        /\ seat'[w].restart = seat[w].restart
        /\ seat'[w].status = seat[w].status \/ seat'[w].status = "paused" \/ seat[w].fence = NoCommand
    BY <1>1, <1>2, <1>3 DEF Types, SeatState, Heard
  <1>5. Types'
    BY <1>1, <1>2, <1>3, <1>4 DEF Types
  <1>6. ASSUME NEW v \in Worker PROVE BodyInv(v)'
    BY <1>2, <1>3, <1>4 DEF ForceInv, BodyInv
  <1>7. ASSUME NEW v \in Worker PROVE SeatInv(v)'
    BY <1>2, <1>3, <1>4 DEF ForceInv, SeatInv, Up, Its
  <1>8. ASSUME NEW j \in Command PROVE TaskInv(j)'
    BY <1>2, <1>3, <1>4 DEF ForceInv, TaskInv, On, Alive, RunsOn, MayRunOn, Placed, Up
  <1>9. ASSUME NEW j \in Command PROVE PhaseInv(j)'
    BY <1>2, <1>3, <1>4 DEF ForceInv, PhaseInv, Alive, RunsOn, MayRunOn, Up, Its, Early,
       Late
  <1>10. ASSUME NEW j \in Command PROVE GripInv(j)'
    BY <1>2, <1>3, <1>4 DEF ForceInv, GripInv, Placed, Up, Its
  <1>11. ASSUME NEW j \in Command PROVE TrailInv(j)'
    BY <1>2, <1>3, <1>4 DEF ForceInv, TrailInv, Up, Its, Early, Late
  <1>12. ASSUME NEW j \in Command PROVE EvidenceInv(j)'
    BY <1>2, <1>3, <1>4 DEF ForceInv, EvidenceInv, Placed, Its
  <1>13. ASSUME NEW j \in Command PROVE OutcomeInv(j)'
    BY <1>2, <1>3, <1>4 DEF ForceInv, OutcomeInv, Alive, RunsOn, MayRunOn, Up, Its, Ending
  <1> QED
    BY <1>5, <1>6, <1>7, <1>8, <1>9, <1>10, <1>11, <1>12, <1>13 DEF ForceInv

LEMMA RemoveKeeps == ASSUME ForceInv, NEW w \in Worker, Remove(w) PROVE ForceInv'
  <1>1. Types
    BY DEF ForceInv
  <1>2. /\ seat[w].here
        /\ loss' = [k \in Command |-> IF Placed(k, w) THEN Loss(k, w) ELSE loss[k]]
        /\ task' = [k \in Command |-> IF Placed(k, w) THEN [at |-> "queued", on |-> NoWorker] ELSE task[k]]
        /\ seat' = [seat EXCEPT ![w] = Absent]
        /\ told' = [told EXCEPT ![w] = <<>>]
        /\ UNCHANGED <<hold, body, waiter>>
    BY DEF Remove, Seat
  <1>3. /\ loss' \in [Command -> LossState]
        /\ \A k \in Command : ~Placed(k, w) => loss'[k] = loss[k]
        /\ \A k \in Command : Placed(k, w) =>
                 \/ loss'[k].unknown /\ loss'[k].pending = loss[k].pending
                 \/ loss'[k].unknown = loss[k].unknown /\ loss'[k].pending = w /\ seat[w].restart # NoCommand
    BY <1>1, <1>2 DEF Types, LossState, Loss, Place
  <1>4. /\ task' \in [Command -> TaskState]
        /\ \A k \in Command : ~Placed(k, w) => task'[k] = task[k]
        /\ \A k \in Command : Placed(k, w) => task'[k].at = "queued" /\ task'[k].on = NoWorker
    BY <1>1, <1>2, <1>3 DEF Types, TaskState, Place
  <1>5. /\ seat' \in [Worker -> SeatState] /\ \A v \in Worker : v # w => seat'[v] = seat[v]
        /\ seat'[w].here = FALSE
        /\ seat'[w].status = "running"
        /\ seat'[w].fence = NoCommand
        /\ seat'[w].restart = NoCommand
    BY <1>1, <1>2, <1>3, <1>4 DEF Types, SeatState, Absent, Key
  <1>6. Types'
    BY <1>1, <1>2, <1>3, <1>4, <1>5 DEF Types
  <1>7. ASSUME NEW v \in Worker PROVE BodyInv(v)'
    BY <1>2, <1>3, <1>4, <1>5 DEF ForceInv, BodyInv, Placed
  <1>8. ASSUME NEW v \in Worker PROVE SeatInv(v)'
    BY <1>2, <1>3, <1>4, <1>5 DEF ForceInv, SeatInv, Placed, Up, Its
  <1>9. ASSUME NEW j \in Command PROVE TaskInv(j)'
    BY <1>2, <1>3, <1>4, <1>5, NamesAssumption DEF ForceInv, TaskInv, BodyInv, SeatInv, On,
       Alive, RunsOn, MayRunOn, Placed, Up, Its
  <1>10. ASSUME NEW j \in Command PROVE PhaseInv(j)'
    BY <1>2, <1>3, <1>4, <1>5, NamesAssumption DEF ForceInv, PhaseInv, TaskInv, BodyInv, On,
       Alive, RunsOn, MayRunOn, Placed, Up, Its, Early, Late
  <1>11. ASSUME NEW j \in Command PROVE GripInv(j)'
    BY <1>2, <1>3, <1>4, <1>5, NamesAssumption DEF ForceInv, GripInv, TaskInv, SeatInv,
       BodyInv, PhaseInv, On, Alive, RunsOn, MayRunOn, Placed, Up, Its, Early, Late
  <1>12. ASSUME NEW j \in Command PROVE TrailInv(j)'
    BY <1>2, <1>3, <1>4, <1>5, NamesAssumption DEF ForceInv, TrailInv, Placed, Up, Its,
       Early, Late
  <1>13. ASSUME NEW j \in Command PROVE EvidenceInv(j)'
    BY <1>2, <1>3, <1>4, <1>5, NamesAssumption DEF ForceInv, EvidenceInv, SeatInv, TaskInv,
       PhaseInv, On, Alive, RunsOn, MayRunOn, Placed, Up, Its, Early, Late
  <1>14. ASSUME NEW j \in Command PROVE OutcomeInv(j)'
    BY <1>2, <1>3, <1>4, <1>5, NamesAssumption DEF ForceInv, OutcomeInv, PhaseInv, TaskInv,
       BodyInv, On, Alive, RunsOn, MayRunOn, Placed, Up, Its, Early, Late, Ending
  <1> QED
    BY <1>6, <1>7, <1>8, <1>9, <1>10, <1>11, <1>12, <1>13, <1>14 DEF ForceInv

LEMMA RequestKeeps == ASSUME ForceInv, NEW k \in Command, Request(k) PROVE ForceInv'
  <1>1. Types
    BY DEF ForceInv
  <1>2. /\ waiter[k].at = "idle"
        /\ waiter' = [waiter EXCEPT ![k] = [waiter[k] EXCEPT !.at = "locate"]]
        /\ UNCHANGED <<task, hold, loss, seat, body, told>>
    BY DEF Request, Goto, Wait, In, pool
  <1>3. /\ waiter' \in [Command -> WaiterState] /\ \A j \in Command : j # k => waiter'[j] = waiter[j]
        /\ waiter'[k].at = "locate"
        /\ waiter'[k].worker = waiter[k].worker
        /\ waiter'[k].entered = waiter[k].entered
        /\ waiter'[k].evidence = waiter[k].evidence
        /\ waiter'[k].restarted = waiter[k].restarted
        /\ waiter'[k].lost = waiter[k].lost
        /\ waiter'[k].outcome = waiter[k].outcome
    BY <1>1, <1>2 DEF Types, WaiterState, Place, Early, Late, Ending
  <1>4. Types'
    BY <1>1, <1>2, <1>3 DEF Types
  <1>5. ASSUME NEW v \in Worker PROVE BodyInv(v)'
    BY <1>2, <1>3 DEF ForceInv, BodyInv
  <1>6. ASSUME NEW v \in Worker PROVE SeatInv(v)'
    BY <1>2, <1>3 DEF ForceInv, SeatInv, Up, Its
  <1>7. ASSUME NEW j \in Command PROVE TaskInv(j)'
    BY <1>2, <1>3 DEF ForceInv, TaskInv, On, Alive, RunsOn, MayRunOn, Placed, Up
  <1>8. ASSUME NEW j \in Command PROVE PhaseInv(j)'
    BY <1>2, <1>3 DEF ForceInv, PhaseInv, Alive, RunsOn, MayRunOn, Up, Its, Early, Late
  <1>9. ASSUME NEW j \in Command PROVE GripInv(j)'
    BY <1>2, <1>3 DEF ForceInv, GripInv, Placed, Up, Its
  <1>10. ASSUME NEW j \in Command PROVE TrailInv(j)'
    BY <1>2, <1>3 DEF ForceInv, TrailInv, Up, Its, Early, Late
  <1>11. ASSUME NEW j \in Command PROVE EvidenceInv(j)'
    BY <1>2, <1>3 DEF ForceInv, EvidenceInv, Placed, Its
  <1>12. ASSUME NEW j \in Command PROVE OutcomeInv(j)'
    BY <1>2, <1>3 DEF ForceInv, OutcomeInv, Alive, RunsOn, MayRunOn, Up, Its, Ending
  <1> QED
    BY <1>4, <1>5, <1>6, <1>7, <1>8, <1>9, <1>10, <1>11, <1>12 DEF ForceInv

LEMMA LocatePendingKeeps == ASSUME ForceInv, NEW k \in Command, LocatePending(k) PROVE ForceInv'
  <1>1. Types
    BY DEF ForceInv
  <1>2. /\ waiter[k].at = "locate"
        /\ hold' = hold \cup {k}
        /\ UNCHANGED <<task, loss, seat, body, told, waiter>>
    BY DEF LocatePending, In
  <1>3. Types'
    BY <1>1, <1>2 DEF Types
  <1>4. ASSUME NEW v \in Worker PROVE BodyInv(v)'
    BY <1>2 DEF ForceInv, BodyInv
  <1>5. ASSUME NEW v \in Worker PROVE SeatInv(v)'
    BY <1>2 DEF ForceInv, SeatInv, Up, Its
  <1>6. ASSUME NEW j \in Command PROVE TaskInv(j)'
    BY <1>2 DEF ForceInv, TaskInv, On, Alive, RunsOn, MayRunOn, Placed, Up
  <1>7. ASSUME NEW j \in Command PROVE PhaseInv(j)'
    BY <1>2 DEF ForceInv, PhaseInv, Alive, RunsOn, MayRunOn, Up, Its, Early, Late
  <1>8. ASSUME NEW j \in Command PROVE GripInv(j)'
    BY <1>2 DEF ForceInv, GripInv, Placed, Up, Its
  <1>9. ASSUME NEW j \in Command PROVE TrailInv(j)'
    BY <1>2 DEF ForceInv, TrailInv, Up, Its, Early, Late
  <1>10. ASSUME NEW j \in Command PROVE EvidenceInv(j)'
    BY <1>2 DEF ForceInv, EvidenceInv, Placed, Its
  <1>11. ASSUME NEW j \in Command PROVE OutcomeInv(j)'
    BY <1>2 DEF ForceInv, OutcomeInv, Alive, RunsOn, MayRunOn, Up, Its, Ending
  <1> QED
    BY <1>3, <1>4, <1>5, <1>6, <1>7, <1>8, <1>9, <1>10, <1>11 DEF ForceInv

-----------------------------------------------------------------------------
(* Steps of a waiter that change nothing but itself and its admission hold. *)

LEMMA OwnStep ==
  ASSUME ForceInv, NEW k \in Command, NEW r \in WaiterState,
         UNCHANGED <<task, loss, seat, body, told>>,
         waiter' = [waiter EXCEPT ![k] = r],
         hold' \subseteq Command, \A j \in Command : j # k /\ j \in hold' => j \in hold,
         r.restarted = waiter[k].restarted, r.restarted => r.worker = waiter[k].worker,
         (PhaseInv(k) /\ GripInv(k) /\ TrailInv(k) /\ EvidenceInv(k) /\ OutcomeInv(k))'
  PROVE  ForceInv'
  <1>1. Types /\ waiter'[k] = r /\ \A j \in Command : j # k => waiter'[j] = waiter[j]
    BY DEF ForceInv, Types
  <1>2. Types'
    BY <1>1 DEF Types
  <1>3. \A w \in Worker : BodyInv(w)'
    BY DEF ForceInv, BodyInv
  <1>4. ASSUME NEW w \in Worker PROVE SeatInv(w)'
    <2>1. SeatInv(w)
      BY DEF ForceInv
    <2>2. CASE seat[w].restart = k
      BY <1>1, <2>1, <2>2 DEF SeatInv, Its, Up
    <2>3. CASE seat[w].restart \in Command \ {k}
      BY <1>1, <2>1, <2>3 DEF SeatInv, Its, Up
    <2>4. CASE seat[w].restart = NoCommand
      BY <2>1, <2>4 DEF SeatInv, Up
    <2> QED
      BY <1>1, <2>2, <2>3, <2>4 DEF Types, SeatState, Key
  <1>5. \A j \in Command : TaskInv(j)'
    BY DEF ForceInv, TaskInv, On, Alive, RunsOn, MayRunOn, Placed, Up
  <1>6. ASSUME NEW j \in Command, j # k PROVE (PhaseInv(j) /\ GripInv(j) /\ OutcomeInv(j))'
    BY <1>1, <1>6 DEF ForceInv, PhaseInv, GripInv, OutcomeInv, Alive, RunsOn, MayRunOn, Placed, Up, Its
  <1>7. ASSUME NEW j \in Command, j # k PROVE (TrailInv(j) /\ EvidenceInv(j))'
    BY <1>1, <1>7 DEF ForceInv, TrailInv, EvidenceInv, Placed, Up, Its
  <1> QED
    BY <1>2, <1>3, <1>4, <1>5, <1>6, <1>7 DEF ForceInv

\* Whatever happened, a waiter may give up without a confirmation.
LEMMA GivingUp ==
  ASSUME ForceInv, NEW k \in Command, NEW o \in {"none", "failed"},
         waiter[k].at \in (Early \cup Late) \ {"idle"}, Settle(k, o),
         UNCHANGED <<pool, body, told>>
  PROVE  ForceInv'
  <1> DEFINE r == [waiter[k] EXCEPT !.at = "unhold", !.outcome = o,
                                    !.entered = FALSE, !.evidence = {}]
  <1>1. waiter[k] \in WaiterState /\ waiter \in [Command -> WaiterState] /\ hold \subseteq Command
    BY DEF ForceInv, Types
  <1>2. waiter' = [waiter EXCEPT ![k] = r] /\ UNCHANGED <<task, hold, loss, seat, body, told>>
    BY DEF Settle, Wait, pool
  <1>3. /\ r \in WaiterState /\ r.at = "unhold" /\ r.outcome = o
        /\ r.worker = waiter[k].worker /\ r.restarted = waiter[k].restarted /\ r.lost = waiter[k].lost
    BY <1>1 DEF WaiterState, Ending
  <1> HIDE DEF r
  <1>4. waiter'[k] = r
    BY <1>1, <1>2
  <1>5. PhaseInv(k)'
    BY <1>2, <1>3, <1>4 DEF ForceInv, PhaseInv, Its, Early, Late
  <1>6. (GripInv(k) /\ EvidenceInv(k) /\ OutcomeInv(k))'
    BY <1>3, <1>4 DEF GripInv, EvidenceInv, OutcomeInv
  <1>7. TrailInv(k)'
    BY <1>2, <1>3, <1>4 DEF ForceInv, TrailInv, Its, Up
  <1> QED
    BY <1>1, <1>2, <1>3, <1>5, <1>6, <1>7, OwnStep

LEMMA FailsKeeps == ASSUME ForceInv, NEW k \in Command, Fails(k) PROVE ForceInv'
  BY GivingUp DEF Fails, Early, Late

LEMMA LocateKeeps == ASSUME ForceInv, NEW k \in Command, Locate(k) PROVE ForceInv'
  <1>1. CASE task[k].at = "over" \/ loss[k].unknown
    BY <1>1, GivingUp DEF Locate, In, pool, Early, Late
  <1>2. CASE task[k].at # "over" /\ ~loss[k].unknown
    <2> DEFINE r == [waiter[k] EXCEPT !.worker = task[k].on, !.entered = FALSE, !.at = (IF task[k].on = NoWorker THEN "prepare" ELSE "pause")]
    <2>1. waiter[k] \in WaiterState /\ waiter \in [Command -> WaiterState] /\ hold \subseteq Command
      BY DEF ForceInv, Types
    <2>2. /\ waiter[k].at = "locate" /\ task[k].at # "over"
          /\ hold' = hold \cup {k}
          /\ loss[k].pending = NoWorker
          /\ UNCHANGED <<task, loss, seat, body, told>>
          /\ waiter' = [waiter EXCEPT ![k] = r]
      BY <1>2 DEF Locate, Wait, In
    <2>3. task[k] \in TaskState /\ loss[k] \in LossState /\ ~waiter[k].restarted
      BY <2>2 DEF ForceInv, Types, PhaseInv
    <2>4. /\ r \in WaiterState
          /\ r.at = (IF task[k].on = NoWorker THEN "prepare" ELSE "pause") /\ r.worker = task[k].on /\ r.entered = FALSE
          /\ r.evidence = waiter[k].evidence /\ r.restarted = waiter[k].restarted /\ r.lost = waiter[k].lost /\ r.outcome = waiter[k].outcome
      BY <2>1, <2>2, <2>3 DEF WaiterState, TaskState, Place, Early, Late, Ending
    <2> HIDE DEF r
    <2>5. waiter'[k] = r
      BY <2>1, <2>2
    <2>6. PhaseInv(k)'
      BY <2>2, <2>3, <2>4, <2>5, NamesAssumption DEF ForceInv, PhaseInv, TaskInv, SeatInv, TaskState, Place, Its, Early, Late
    <2>7. GripInv(k)'
      BY <2>2, <2>3, <2>4, <2>5 DEF GripInv, Its
    <2>8. TrailInv(k)'
      BY <2>2, <2>3, <2>4, <2>5, NamesAssumption DEF ForceInv, TrailInv, Its, Up, Early, Late
    <2>9. EvidenceInv(k)'
      BY <2>2, <2>3, <2>4, <2>5, NamesAssumption DEF ForceInv, EvidenceInv, Its, Placed
    <2>10. OutcomeInv(k)'
      BY <2>2, <2>3, <2>4, <2>5, NamesAssumption DEF ForceInv, OutcomeInv, PhaseInv, Early, Late, Alive, RunsOn, MayRunOn, Up, Its, Ending
    <2> QED
      BY <2>1, <2>2, <2>3, <2>4, <2>6, <2>7, <2>8, <2>9, <2>10, OwnStep
  <1> QED
    BY <1>1, <1>2

LEMMA PauseRefusedKeeps == ASSUME ForceInv, NEW k \in Command, PauseRefused(k) PROVE ForceInv'
  <1>1. CASE k \in body[Its(k)].ended
    BY <1>1, GivingUp DEF PauseRefused, In, Early, Late
  <1>2. CASE k \notin body[Its(k)].ended
    <2> DEFINE r == [waiter[k] EXCEPT !.at = "locate"]
    <2>1. waiter[k] \in WaiterState /\ waiter \in [Command -> WaiterState] /\ hold \subseteq Command
      BY DEF ForceInv, Types
    <2>2. /\ waiter[k].at = "pause"
          /\ hold' = hold
          /\ UNCHANGED <<task, loss, seat, body, told>>
          /\ waiter' = [waiter EXCEPT ![k] = r]
      BY <1>2 DEF PauseRefused, Goto, Wait, In, pool
    <2>3. task[k] \in TaskState /\ loss[k] \in LossState
      BY DEF ForceInv, Types
    <2>4. /\ r \in WaiterState
          /\ r.at = "locate" /\ r.worker = waiter[k].worker /\ r.entered = waiter[k].entered
          /\ r.evidence = waiter[k].evidence /\ r.restarted = waiter[k].restarted /\ r.lost = waiter[k].lost /\ r.outcome = waiter[k].outcome
      BY <2>1, <2>2, <2>3 DEF WaiterState, TaskState, Place, Early, Late, Ending
    <2> HIDE DEF r
    <2>5. waiter'[k] = r
      BY <2>1, <2>2
    <2>6. PhaseInv(k)'
      BY <2>2, <2>3, <2>4, <2>5, NamesAssumption DEF ForceInv, PhaseInv, Its, Early, Late
    <2>7. GripInv(k)'
      BY <2>2, <2>3, <2>4, <2>5, NamesAssumption DEF ForceInv, GripInv, Its, Up, Early, Late
    <2>8. TrailInv(k)'
      BY <2>2, <2>3, <2>4, <2>5, NamesAssumption DEF ForceInv, TrailInv, Its, Up, Early, Late
    <2>9. EvidenceInv(k)'
      BY <2>2, <2>3, <2>4, <2>5, NamesAssumption DEF ForceInv, EvidenceInv, Its, Placed
    <2>10. OutcomeInv(k)'
      BY <2>2, <2>3, <2>4, <2>5, NamesAssumption DEF ForceInv, OutcomeInv, PhaseInv, Early, Late, Alive, RunsOn, MayRunOn, Up, Its, Ending
    <2> QED
      BY <2>1, <2>2, <2>3, <2>4, <2>6, <2>7, <2>8, <2>9, <2>10, OwnStep
  <1> QED
    BY <1>1, <1>2

LEMMA RelocateKeeps == ASSUME ForceInv, NEW k \in Command, Relocate(k) PROVE ForceInv'
  <1>1. CASE seat[Its(k)].here \/ loss[k].unknown
    BY <1>1, GivingUp DEF Relocate, In, Early, Late
  <1>2. CASE ~seat[Its(k)].here /\ ~loss[k].unknown
    <2> DEFINE r == [waiter[k] EXCEPT !.at = "locate", !.worker = NoWorker]
    <2>1. waiter[k] \in WaiterState /\ waiter \in [Command -> WaiterState] /\ hold \subseteq Command
      BY DEF ForceInv, Types
    <2>2. /\ waiter[k].at = "relocate"
          /\ hold' = hold
          /\ UNCHANGED <<task, loss, seat, body, told>>
          /\ waiter' = [waiter EXCEPT ![k] = r]
      BY <1>2 DEF Relocate, Wait, In, pool
    <2>3. task[k] \in TaskState /\ loss[k] \in LossState /\ ~waiter[k].restarted
      BY <2>2 DEF ForceInv, Types, PhaseInv
    <2>4. /\ r \in WaiterState
          /\ r.at = "locate" /\ r.worker = NoWorker /\ r.entered = waiter[k].entered
          /\ r.evidence = waiter[k].evidence /\ r.restarted = waiter[k].restarted /\ r.lost = waiter[k].lost /\ r.outcome = waiter[k].outcome
      BY <2>1, <2>2, <2>3 DEF WaiterState, TaskState, Place, Early, Late, Ending
    <2> HIDE DEF r
    <2>5. waiter'[k] = r
      BY <2>1, <2>2
    <2>6. PhaseInv(k)'
      BY <2>2, <2>3, <2>4, <2>5, NamesAssumption DEF ForceInv, PhaseInv, Its, Early, Late
    <2>7. GripInv(k)'
      BY <2>2, <2>3, <2>4, <2>5, NamesAssumption DEF ForceInv, GripInv, Its, Up, Early, Late
    <2>8. TrailInv(k)'
      BY <1>2, <2>2, <2>3, <2>4, <2>5, NamesAssumption DEF ForceInv, TrailInv, Its, Up, Early, Late
    <2>9. EvidenceInv(k)'
      BY <2>2, <2>3, <2>4, <2>5, NamesAssumption DEF ForceInv, EvidenceInv, Its, Placed
    <2>10. OutcomeInv(k)'
      BY <2>2, <2>3, <2>4, <2>5, NamesAssumption DEF ForceInv, OutcomeInv, PhaseInv, Early, Late, Alive, RunsOn, MayRunOn, Up, Its, Ending
    <2> QED
      BY <2>1, <2>2, <2>3, <2>4, <2>6, <2>7, <2>8, <2>9, <2>10, OwnStep
  <1> QED
    BY <1>1, <1>2

LEMMA PrepareRefusedKeeps == ASSUME ForceInv, NEW k \in Command, PrepareRefused(k) PROVE ForceInv'
  <1>1. CASE Settle(k, "none") \/ Settle(k, "failed")
    BY <1>1, GivingUp DEF PrepareRefused, In, Early, Late
  <1>2. CASE Goto(k, "locate") /\ task[k].at # "over" /\ (loss[k].pending # NoWorker \/ Moved(k))
    <2> DEFINE r == [waiter[k] EXCEPT !.at = "locate"]
    <2>1. waiter[k] \in WaiterState /\ waiter \in [Command -> WaiterState] /\ hold \subseteq Command
      BY DEF ForceInv, Types
    <2>2. /\ waiter[k].at = "prepare"
          /\ hold' = hold
          /\ loss[k].pending # NoWorker \/ Its(k) = NoWorker
          /\ UNCHANGED <<task, loss, seat, body, told>>
          /\ waiter' = [waiter EXCEPT ![k] = r]
      BY <1>2 DEF PrepareRefused, Moved, Goto, Wait, In, pool
    <2>3. task[k] \in TaskState /\ loss[k] \in LossState
      BY DEF ForceInv, Types
    <2>4. /\ r \in WaiterState
          /\ r.at = "locate" /\ r.worker = waiter[k].worker /\ r.entered = waiter[k].entered
          /\ r.evidence = waiter[k].evidence /\ r.restarted = waiter[k].restarted /\ r.lost = waiter[k].lost /\ r.outcome = waiter[k].outcome
      BY <2>1, <2>2, <2>3 DEF WaiterState, TaskState, Place, Early, Late, Ending
    <2> HIDE DEF r
    <2>5. waiter'[k] = r
      BY <2>1, <2>2
    <2>6. PhaseInv(k)'
      BY <2>2, <2>3, <2>4, <2>5, NamesAssumption DEF ForceInv, PhaseInv, Its, Early, Late
    <2>7. GripInv(k)'
      BY <2>2, <2>3, <2>4, <2>5, NamesAssumption DEF ForceInv, GripInv, Its, Up, Early, Late
    <2>8. TrailInv(k)'
      BY <1>2, <2>2, <2>3, <2>4, <2>5, NamesAssumption DEF ForceInv, TrailInv, TaskInv, GripInv, Placed, Its, Up, Early, Late
    <2>9. EvidenceInv(k)'
      BY <2>2, <2>3, <2>4, <2>5, NamesAssumption DEF ForceInv, EvidenceInv, Its, Placed
    <2>10. OutcomeInv(k)'
      BY <2>2, <2>3, <2>4, <2>5, NamesAssumption DEF ForceInv, OutcomeInv, PhaseInv, Early, Late, Alive, RunsOn, MayRunOn, Up, Its, Ending
    <2> QED
      BY <2>1, <2>2, <2>3, <2>4, <2>6, <2>7, <2>8, <2>9, <2>10, OwnStep
  <1> QED
    BY <1>1, <1>2 DEF PrepareRefused, Moved

\* A waiter confirms: its command is gone, alive nowhere, and no restart was begun.
LEMMA Confirming ==
  ASSUME ForceInv, NEW k \in Command, waiter[k].at \in Late, ~waiter[k].restarted,
         \A w \in Worker : ~Alive(k, w), Settle(k, "confirmed"), UNCHANGED <<pool, body, told>>
  PROVE  ForceInv'
  <1> DEFINE r == [waiter[k] EXCEPT !.at = "unhold", !.outcome = "confirmed", !.entered = FALSE, !.evidence = {}]
  <1>1. waiter[k] \in WaiterState /\ waiter \in [Command -> WaiterState] /\ hold \subseteq Command
    BY DEF ForceInv, Types
  <1>2. /\ hold' = hold
        /\ UNCHANGED <<task, loss, seat, body, told>>
        /\ waiter' = [waiter EXCEPT ![k] = r]
    BY DEF Settle, Wait, pool
  <1>3. task[k] \in TaskState /\ loss[k] \in LossState
    BY DEF ForceInv, Types
  <1>4. /\ r \in WaiterState
        /\ r.at = "unhold" /\ r.worker = waiter[k].worker /\ r.entered = FALSE
        /\ r.evidence = {} /\ r.restarted = waiter[k].restarted /\ r.lost = waiter[k].lost /\ r.outcome = "confirmed"
    BY <1>1, <1>2, <1>3 DEF WaiterState, TaskState, Place, Early, Late, Ending
  <1> HIDE DEF r
  <1>5. waiter'[k] = r
    BY <1>1, <1>2
  <1>6. PhaseInv(k)'
    BY <1>2, <1>3, <1>4, <1>5, NamesAssumption DEF ForceInv, PhaseInv, Its, Early, Late
  <1>7. GripInv(k)'
    BY <1>2, <1>3, <1>4, <1>5, NamesAssumption DEF ForceInv, GripInv, Its, Up, Early, Late
  <1>8. TrailInv(k)'
    BY <1>2, <1>3, <1>4, <1>5, NamesAssumption DEF ForceInv, TrailInv, Its, Up, Early, Late
  <1>9. EvidenceInv(k)'
    BY <1>2, <1>3, <1>4, <1>5, NamesAssumption DEF ForceInv, EvidenceInv, Its, Placed
  <1>10. OutcomeInv(k)'
    BY <1>2, <1>3, <1>4, <1>5 DEF ForceInv, OutcomeInv, PhaseInv, Ending, Alive, RunsOn, MayRunOn, Up
  <1> QED
    BY <1>1, <1>2, <1>3, <1>4, <1>6, <1>7, <1>8, <1>9, <1>10, OwnStep

LEMMA AcknowledgeKeeps == ASSUME ForceInv, NEW k \in Command, Acknowledge(k) PROVE ForceInv'
  <1>1. waiter[k].at = "ack" /\ ~waiter[k].restarted
    BY DEF Acknowledge, In, ForceInv, PhaseInv
  <1>2. CASE Its(k) = NoWorker
    <2>1. Settle(k, "confirmed") /\ UNCHANGED <<pool, body, told>>
      BY <1>2 DEF Acknowledge
    <2>2. \A w \in Worker : ~Alive(k, w)
      BY <1>1, <1>2, NamesAssumption DEF ForceInv, PhaseInv, Late
    <2> QED
      BY <1>1, <2>1, <2>2, Confirming DEF Late
  <1>3. CASE Settle(k, "failed")
    BY <1>1, <1>3, GivingUp DEF Acknowledge, Late
  <1>4. CASE Its(k) # NoWorker /\ Goto(k, IF waiter[k].entered THEN "begin" ELSE "release")
    <2> DEFINE r == [waiter[k] EXCEPT !.at = (IF waiter[k].entered THEN "begin" ELSE "release")]
    <2>1. waiter[k] \in WaiterState /\ waiter \in [Command -> WaiterState] /\ hold \subseteq Command
      BY DEF ForceInv, Types
    <2>2. /\ waiter[k].at = "ack"
          /\ hold' = hold
          /\ UNCHANGED <<task, loss, seat, body, told>>
          /\ waiter' = [waiter EXCEPT ![k] = r]
      BY <1>4 DEF Acknowledge, Goto, Wait, In, pool
    <2>3. task[k] \in TaskState /\ loss[k] \in LossState
      BY DEF ForceInv, Types
    <2>4. /\ r \in WaiterState
          /\ r.at = (IF waiter[k].entered THEN "begin" ELSE "release") /\ r.worker = waiter[k].worker /\ r.entered = waiter[k].entered
          /\ r.evidence = waiter[k].evidence /\ r.restarted = waiter[k].restarted /\ r.lost = waiter[k].lost /\ r.outcome = waiter[k].outcome
      BY <2>1, <2>2, <2>3 DEF WaiterState, TaskState, Place, Early, Late, Ending
    <2> HIDE DEF r
    <2>5. waiter'[k] = r
      BY <2>1, <2>2
    <2>6. PhaseInv(k)'
      BY <1>4, <2>2, <2>3, <2>4, <2>5 DEF ForceInv, PhaseInv, Its, Early, Late, Alive, RunsOn, MayRunOn, Up
    <2>7. GripInv(k)'
      BY <2>2, <2>3, <2>4, <2>5, NamesAssumption DEF ForceInv, GripInv, Its, Up, Early, Late
    <2>8. TrailInv(k)'
      BY <2>2, <2>3, <2>4, <2>5, NamesAssumption DEF ForceInv, TrailInv, Its, Up, Early, Late
    <2>9. EvidenceInv(k)'
      BY <2>2, <2>3, <2>4, <2>5, NamesAssumption DEF ForceInv, EvidenceInv, Its, Placed
    <2>10. OutcomeInv(k)'
      BY <2>2, <2>3, <2>4, <2>5, NamesAssumption DEF ForceInv, OutcomeInv, PhaseInv, Early, Late, Alive, RunsOn, MayRunOn, Up, Its, Ending
    <2> QED
      BY <2>1, <2>2, <2>3, <2>4, <2>6, <2>7, <2>8, <2>9, <2>10, OwnStep
  <1> QED
    BY <1>2, <1>3, <1>4 DEF Acknowledge

LEMMA WorkerReleasedKeeps == ASSUME ForceInv, NEW k \in Command, WorkerReleased(k) PROVE ForceInv'
  <1>1. waiter[k].at = "release" /\ ~waiter[k].restarted /\ Its(k) \in Worker
    BY DEF WorkerReleased, In, ForceInv, Types, WaiterState, Place, PhaseInv, Its
  <1>2. ~Alive(k, Its(k))
    BY <1>1, NamesAssumption DEF WorkerReleased, ForceInv, GripInv, BodyInv, Alive, RunsOn, MayRunOn, Up
  <1>3. \A w \in Worker : ~Alive(k, w)
    BY <1>1, <1>2 DEF ForceInv, PhaseInv, Late
  <1> QED
    BY <1>1, <1>3, Confirming DEF WorkerReleased, Late

LEMMA ReleaseHoldKeeps == ASSUME ForceInv, NEW k \in Command, ReleaseHold(k) PROVE ForceInv'
  <1> DEFINE r == [waiter[k] EXCEPT !.at = (IF Its(k) # NoWorker /\ ~waiter[k].restarted THEN "resume" ELSE "end")]
  <1>1. waiter[k] \in WaiterState /\ waiter \in [Command -> WaiterState] /\ hold \subseteq Command
    BY DEF ForceInv, Types
  <1>2. /\ waiter[k].at = "unhold"
        /\ hold' = hold \ {k}
        /\ UNCHANGED <<task, loss, seat, body, told>>
        /\ waiter' = [waiter EXCEPT ![k] = r]
    BY DEF ReleaseHold, Goto, Wait, In
  <1>3. task[k] \in TaskState /\ loss[k] \in LossState
    BY DEF ForceInv, Types
  <1>4. /\ r \in WaiterState
        /\ r.at = (IF Its(k) # NoWorker /\ ~waiter[k].restarted THEN "resume" ELSE "end") /\ r.worker = waiter[k].worker /\ r.entered = waiter[k].entered
        /\ r.evidence = waiter[k].evidence /\ r.restarted = waiter[k].restarted /\ r.lost = waiter[k].lost /\ r.outcome = waiter[k].outcome
    BY <1>1, <1>2, <1>3 DEF WaiterState, TaskState, Place, Early, Late, Ending
  <1> HIDE DEF r
  <1>5. waiter'[k] = r
    BY <1>1, <1>2
  <1>6. PhaseInv(k)'
    BY <1>2, <1>3, <1>4, <1>5, NamesAssumption DEF ForceInv, PhaseInv, Its, Early, Late
  <1>7. GripInv(k)'
    BY <1>2, <1>3, <1>4, <1>5, NamesAssumption DEF ForceInv, GripInv, Its, Up, Early, Late
  <1>8. TrailInv(k)'
    BY <1>2, <1>3, <1>4, <1>5, NamesAssumption DEF ForceInv, TrailInv, Its, Up, Early, Late
  <1>9. EvidenceInv(k)'
    BY <1>2, <1>3, <1>4, <1>5, NamesAssumption DEF ForceInv, EvidenceInv, Its, Placed
  <1>10. OutcomeInv(k)'
      <2>1. OutcomeInv(k)
      BY DEF ForceInv
    <2>2. /\ waiter'[k].outcome = waiter[k].outcome /\ Its(k)' = Its(k) /\ waiter'[k].at \in Ending
          /\ waiter'[k].restarted = waiter[k].restarted
      BY <1>2, <1>4, <1>5 DEF Its, Ending
    <2>3. \A w \in Worker : Alive(k, w)' <=> Alive(k, w)
      BY <1>2 DEF Alive, RunsOn, MayRunOn, Up
    <2> QED
      BY <1>2, <2>1, <2>2, <2>3 DEF OutcomeInv
  <1> QED
    BY <1>1, <1>2, <1>3, <1>4, <1>6, <1>7, <1>8, <1>9, <1>10, OwnStep

LEMMA CleanupFailsKeeps == ASSUME ForceInv, NEW k \in Command, CleanupFails(k) PROVE ForceInv'
  <1> DEFINE r == [waiter[k] EXCEPT !.lost = TRUE, !.at = (IF waiter[k].at = "unhold" /\ Its(k) # NoWorker /\ ~waiter[k].restarted THEN "resume" ELSE "end")]
  <1>1. waiter[k] \in WaiterState /\ waiter \in [Command -> WaiterState] /\ hold \subseteq Command
    BY DEF ForceInv, Types
  <1>2. /\ waiter[k].at \in {"unhold", "resume", "ungate"}
        /\ hold' = hold
        /\ UNCHANGED <<task, loss, seat, body, told>>
        /\ waiter' = [waiter EXCEPT ![k] = r]
    BY DEF CleanupFails, Wait, In, pool
  <1>3. task[k] \in TaskState /\ loss[k] \in LossState
    BY DEF ForceInv, Types
  <1>4. /\ r \in WaiterState
        /\ r.at = (IF waiter[k].at = "unhold" /\ Its(k) # NoWorker /\ ~waiter[k].restarted THEN "resume" ELSE "end") /\ r.worker = waiter[k].worker /\ r.entered = waiter[k].entered
        /\ r.evidence = waiter[k].evidence /\ r.restarted = waiter[k].restarted /\ r.lost = TRUE /\ r.outcome = waiter[k].outcome
    BY <1>1, <1>2, <1>3 DEF WaiterState, TaskState, Place, Early, Late, Ending
  <1> HIDE DEF r
  <1>5. waiter'[k] = r
    BY <1>1, <1>2
  <1>6. PhaseInv(k)'
    BY <1>2, <1>3, <1>4, <1>5, NamesAssumption DEF ForceInv, PhaseInv, Its, Early, Late
  <1>7. GripInv(k)'
    BY <1>2, <1>3, <1>4, <1>5, NamesAssumption DEF ForceInv, GripInv, Its, Up, Early, Late
  <1>8. TrailInv(k)'
    BY <1>2, <1>3, <1>4, <1>5, NamesAssumption DEF ForceInv, TrailInv, Its, Up, Early, Late
  <1>9. EvidenceInv(k)'
    BY <1>2, <1>3, <1>4, <1>5, NamesAssumption DEF ForceInv, EvidenceInv, Its, Placed
  <1>10. OutcomeInv(k)'
      <2>1. OutcomeInv(k)
      BY DEF ForceInv
    <2>2. /\ waiter'[k].outcome = waiter[k].outcome /\ Its(k)' = Its(k) /\ waiter'[k].at \in Ending
          /\ waiter'[k].restarted = waiter[k].restarted
      BY <1>2, <1>4, <1>5 DEF Its, Ending
    <2>3. \A w \in Worker : Alive(k, w)' <=> Alive(k, w)
      BY <1>2 DEF Alive, RunsOn, MayRunOn, Up
    <2> QED
      BY <1>2, <2>1, <2>2, <2>3 DEF OutcomeInv
  <1> QED
    BY <1>1, <1>2, <1>3, <1>4, <1>6, <1>7, <1>8, <1>9, <1>10, OwnStep

-----------------------------------------------------------------------------
(* Steps of a waiter at its worker.                                        *)

LEMMA Telling ==
  ASSUME Types, NEW w \in Worker, NEW s \in {"running", "paused"}, Tell(w, s)
  PROVE  told' \in [Worker -> Seq({"running", "paused"})]
  BY DEF Types, Tell

LEMMA Gating ==
  ASSUME Types, NEW w \in Worker, NEW g \in Key,
         body' = [body EXCEPT ![w] = [body[w] EXCEPT !.gate = g]]
  PROVE  /\ body' \in [Worker -> BodyState] /\ \A v \in Worker : v # w => body'[v] = body[v]
         /\ body'[w].gate = g /\ body'[w].life = body[w].life /\ body'[w].inside = body[w].inside
         /\ body'[w].mail = body[w].mail /\ body'[w].has = body[w].has /\ body'[w].ended = body[w].ended
  <1>1. body[w] \in BodyState
    BY DEF Types
  <1>2. [body[w] EXCEPT !.gate = g] \in BodyState
    BY <1>1 DEF BodyState
  <1> QED
    BY <1>1, <1>2 DEF Types, BodyState

LEMMA Beginning ==
  ASSUME Types, NEW k \in Command, NEW E \in SUBSET Command,
         waiter' = [waiter EXCEPT ![k] = [waiter[k] EXCEPT !.at = "restart", !.restarted = TRUE, !.evidence = E]]
  PROVE  /\ waiter' \in [Command -> WaiterState] /\ \A j \in Command : j # k => waiter'[j] = waiter[j]
         /\ waiter'[k].at = "restart" /\ waiter'[k].entered = waiter[k].entered
         /\ waiter'[k].worker = waiter[k].worker /\ waiter'[k].evidence = E /\ waiter'[k].restarted = TRUE
         /\ waiter'[k].lost = waiter[k].lost /\ waiter'[k].outcome = waiter[k].outcome
  <1>1. waiter[k] \in WaiterState
    BY DEF Types
  <1>2. [waiter[k] EXCEPT !.at = "restart", !.restarted = TRUE, !.evidence = E] \in WaiterState
    BY <1>1 DEF WaiterState, Early, Late, Ending
  <1> QED
    BY <1>1, <1>2 DEF Types, WaiterState

LEMMA Settling ==
  ASSUME Types, NEW k \in Command, NEW o \in {"none", "confirmed", "failed"}, Settle(k, o)
  PROVE  /\ waiter' \in [Command -> WaiterState] /\ \A j \in Command : j # k => waiter'[j] = waiter[j]
         /\ waiter'[k].at = "unhold" /\ ~waiter'[k].entered
         /\ waiter'[k].worker = waiter[k].worker /\ waiter'[k].evidence = {}
         /\ waiter'[k].restarted = waiter[k].restarted
         /\ waiter'[k].lost = waiter[k].lost /\ waiter'[k].outcome = o
  <1>1. waiter[k] \in WaiterState
    BY DEF Types
  <1>2. [waiter[k] EXCEPT !.at = "unhold", !.outcome = o, !.entered = FALSE, !.evidence = {}] \in WaiterState
    BY <1>1 DEF WaiterState, Early, Late, Ending
  <1> QED
    BY <1>1, <1>2 DEF Types, WaiterState, Settle, Wait

LEMMA Preparing ==
  ASSUME Types, NEW k \in Command,
         Wait(k, [waiter[k] EXCEPT !.at = "ack", !.worker = task[k].on])
  PROVE  /\ waiter' \in [Command -> WaiterState] /\ \A j \in Command : j # k => waiter'[j] = waiter[j]
         /\ waiter'[k].at = "ack" /\ waiter'[k].entered = waiter[k].entered
         /\ waiter'[k].worker = task[k].on /\ waiter'[k].evidence = waiter[k].evidence
         /\ waiter'[k].restarted = waiter[k].restarted
         /\ waiter'[k].lost = waiter[k].lost /\ waiter'[k].outcome = waiter[k].outcome
  <1>1. waiter[k] \in WaiterState /\ task[k].on \in Place
    BY DEF Types, TaskState
  <1>2. [waiter[k] EXCEPT !.at = "ack", !.worker = task[k].on] \in WaiterState
    BY <1>1 DEF WaiterState, Early, Late, Ending
  <1> QED
    BY <1>1, <1>2 DEF Types, WaiterState, Wait

LEMMA Pausing ==
  ASSUME Types, NEW k \in Command, NEW e \in BOOLEAN,
         waiter' = [waiter EXCEPT ![k] = [waiter[k] EXCEPT !.at = "prepare", !.entered = e]]
  PROVE  /\ waiter' \in [Command -> WaiterState] /\ \A j \in Command : j # k => waiter'[j] = waiter[j]
         /\ waiter'[k].at = "prepare" /\ waiter'[k].entered = e /\ waiter'[k].worker = waiter[k].worker
         /\ waiter'[k].evidence = waiter[k].evidence /\ waiter'[k].restarted = waiter[k].restarted
         /\ waiter'[k].lost = waiter[k].lost /\ waiter'[k].outcome = waiter[k].outcome
  <1>1. waiter[k] \in WaiterState
    BY DEF Types
  <1>2. [waiter[k] EXCEPT !.at = "prepare", !.entered = e] \in WaiterState
    BY <1>1 DEF WaiterState, Early, Late, Ending
  <1> QED
    BY <1>1, <1>2 DEF Types, WaiterState

LEMMA PauseKeeps == ASSUME ForceInv, NEW k \in Command, Pause(k) PROVE ForceInv'
  <1>1. Types
    BY DEF ForceInv
  <1>2. waiter[k].at = "pause"
    BY DEF Pause, In
  <1>3. PICK w \in Worker : Its(k) = w
    BY <1>1, <1>2 DEF ForceInv, Types, PhaseInv, WaiterState, Place, Its
  <1>4. /\ Up(w) /\ k \in body[w].has \ body[w].ended
        /\ body[w].gate = NoCommand
        /\ body' = [body EXCEPT ![w] = [body[w] EXCEPT !.gate = k]]
        /\ waiter' = [waiter EXCEPT ![k] = [waiter[k] EXCEPT !.at = "prepare", !.entered = (body[w].inside = k)]]
        /\ UNCHANGED <<task, hold, loss, seat>>
    BY <1>1, <1>2, <1>3 DEF Pause, Gated, SetsGate, Body, Wait, In, Entered, pool
  <1>5. /\ body' \in [Worker -> BodyState] /\ \A v \in Worker : v # w => body'[v] = body[v]
        /\ body'[w].life = body[w].life
        /\ body'[w].gate = k
        /\ body'[w].inside = body[w].inside
        /\ body'[w].mail = body[w].mail
        /\ body'[w].has = body[w].has
        /\ body'[w].ended = body[w].ended
    BY <1>1, <1>4, ZenonT(40) DEF Types, BodyState, Key
  <1>6. told' \in [Worker -> Seq({"running", "paused"})]
    BY <1>1, <1>3, Telling DEF Pause, SetsGate
  <1>7. /\ waiter' \in [Command -> WaiterState] /\ \A j \in Command : j # k => waiter'[j] = waiter[j]
        /\ waiter'[k].at = "prepare"
        /\ waiter'[k].worker = waiter[k].worker
        /\ waiter'[k].entered <=> body[w].inside = k
        /\ waiter'[k].evidence = waiter[k].evidence
        /\ waiter'[k].restarted = waiter[k].restarted
        /\ waiter'[k].lost = waiter[k].lost
        /\ waiter'[k].outcome = waiter[k].outcome
    BY <1>1, <1>4, (body[w].inside = k) \in BOOLEAN, Pausing
  <1>8. Types'
    BY <1>1, <1>2, <1>3, <1>4, <1>5, <1>6, <1>7 DEF Types
  <1>9. ASSUME NEW v \in Worker PROVE BodyInv(v)'
    BY <1>2, <1>3, <1>4, <1>5, <1>6, <1>7 DEF ForceInv, BodyInv, Up, Its
  <1>10. ASSUME NEW v \in Worker PROVE SeatInv(v)'
    BY <1>2, <1>3, <1>4, <1>5, <1>6, <1>7 DEF ForceInv, SeatInv, Up, Its
  <1>11. ASSUME NEW j \in Command PROVE TaskInv(j)'
    BY <1>2, <1>3, <1>4, <1>5, <1>6, <1>7 DEF ForceInv, TaskInv, On, Alive, RunsOn,
       MayRunOn, Placed, Up, Its
  <1>12. ASSUME NEW j \in Command PROVE PhaseInv(j)'
    BY <1>2, <1>3, <1>4, <1>5, <1>6, <1>7 DEF ForceInv, PhaseInv, Alive, RunsOn, MayRunOn,
       Up, Its, Early, Late
  <1>13. ASSUME NEW j \in Command PROVE GripInv(j)'
    BY <1>2, <1>3, <1>4, <1>5, <1>6, <1>7, NamesAssumption, SMTT(30) DEF ForceInv, GripInv, TaskInv,
       SeatInv, BodyInv, PhaseInv, On, Alive, RunsOn, MayRunOn, Placed, Up, Its, Early, Late
  <1>14. ASSUME NEW j \in Command PROVE TrailInv(j)'
    BY <1>2, <1>3, <1>4, <1>5, <1>6, <1>7 DEF ForceInv, TrailInv, Up, Its, Early, Late
  <1>15. ASSUME NEW j \in Command PROVE EvidenceInv(j)'
    BY <1>2, <1>3, <1>4, <1>5, <1>6, <1>7 DEF ForceInv, EvidenceInv, Placed, Up, Its
  <1>16. ASSUME NEW j \in Command PROVE OutcomeInv(j)'
    BY <1>2, <1>3, <1>4, <1>5, <1>6, <1>7 DEF ForceInv, OutcomeInv, Alive, RunsOn, MayRunOn,
       Up, Its, Ending
  <1> QED
    BY <1>8, <1>9, <1>10, <1>11, <1>12, <1>13, <1>14, <1>15, <1>16 DEF ForceInv

LEMMA PauseLostKeeps == ASSUME ForceInv, NEW k \in Command, PauseLost(k) PROVE ForceInv'
  <1>1. waiter[k].at = "pause"
    BY DEF PauseLost, In
  <1>2. PICK w \in Worker : Its(k) = w
    BY <1>1 DEF ForceInv, Types, PhaseInv, WaiterState, Place, Its
  <1>3. CASE Gated(k, w)
    <2>1. Types
      BY DEF ForceInv
    <2>2. /\ waiter[k].at = "pause" /\ Its(k) = w
          /\ Up(w) /\ body[w].gate = NoCommand
          /\ body' = [body EXCEPT ![w] = [body[w] EXCEPT !.gate = k]]
          /\ waiter' = [waiter EXCEPT ![k] = [waiter[k] EXCEPT !.at = "relocate"]]
          /\ UNCHANGED <<task, hold, loss, seat>>
      BY <1>1, <1>2, <1>3 DEF PauseLost, Gated, SetsGate, Body, Goto, Wait, In, pool
    <2>3. /\ body' \in [Worker -> BodyState] /\ \A v \in Worker : v # w => body'[v] = body[v]
          /\ body'[w].life = body[w].life
          /\ body'[w].gate = k
          /\ body'[w].inside = body[w].inside
          /\ body'[w].mail = body[w].mail
          /\ body'[w].has = body[w].has
          /\ body'[w].ended = body[w].ended
      BY <2>1, <2>2, k \in Key, Gating DEF Key
    <2>4. told' \in [Worker -> Seq({"running", "paused"})]
      BY <2>1, <1>2, <1>3, Telling DEF PauseLost, SetsGate
    <2>5. /\ waiter' \in [Command -> WaiterState] /\ \A j \in Command : j # k => waiter'[j] = waiter[j]
          /\ waiter'[k].at = "relocate"
          /\ waiter'[k].worker = waiter[k].worker
          /\ waiter'[k].entered = waiter[k].entered
          /\ waiter'[k].evidence = waiter[k].evidence
          /\ waiter'[k].restarted = waiter[k].restarted
          /\ waiter'[k].lost = waiter[k].lost
          /\ waiter'[k].outcome = waiter[k].outcome
      BY <2>1, <2>2 DEF Types, WaiterState, Place, Early, Late, Ending
    <2>6. Types'
      BY <2>1, <2>2, <2>3, <2>4, <2>5 DEF Types
    <2>7. ASSUME NEW v \in Worker PROVE BodyInv(v)'
      BY <2>2, <2>3, <2>4, <2>5 DEF ForceInv, BodyInv, Up, Its
    <2>8. ASSUME NEW v \in Worker PROVE SeatInv(v)'
      BY <2>2, <2>3, <2>4, <2>5 DEF ForceInv, SeatInv, Up, Its
    <2>9. ASSUME NEW j \in Command PROVE TaskInv(j)'
      BY <2>2, <2>3, <2>4, <2>5 DEF ForceInv, TaskInv, On, Alive, RunsOn, MayRunOn, Placed,
         Up, Its
    <2>10. ASSUME NEW j \in Command PROVE PhaseInv(j)'
      BY <2>2, <2>3, <2>4, <2>5 DEF ForceInv, PhaseInv, Alive, RunsOn, MayRunOn, Up, Its,
         Early, Late
    <2>11. ASSUME NEW j \in Command PROVE GripInv(j)'
      BY <2>2, <2>3, <2>4, <2>5, NamesAssumption DEF ForceInv, GripInv, Placed, Up, Its
    <2>12. ASSUME NEW j \in Command PROVE TrailInv(j)'
      BY <2>2, <2>3, <2>4, <2>5 DEF ForceInv, TrailInv, Up, Its, Early, Late
    <2>13. ASSUME NEW j \in Command PROVE EvidenceInv(j)'
      BY <2>2, <2>3, <2>4, <2>5 DEF ForceInv, EvidenceInv, Placed, Up, Its
    <2>14. ASSUME NEW j \in Command PROVE OutcomeInv(j)'
      BY <2>2, <2>3, <2>4, <2>5 DEF ForceInv, OutcomeInv, Alive, RunsOn, MayRunOn, Up, Its,
         Ending
    <2> QED
      BY <2>6, <2>7, <2>8, <2>9, <2>10, <2>11, <2>12, <2>13, <2>14 DEF ForceInv
  <1>4. CASE ~Gated(k, w)
    <2> DEFINE r == [waiter[k] EXCEPT !.at = "relocate"]
    <2>1. waiter[k] \in WaiterState /\ waiter \in [Command -> WaiterState] /\ hold \subseteq Command
      BY DEF ForceInv, Types
    <2>2. /\ waiter[k].at = "pause"
          /\ hold' = hold
          /\ UNCHANGED <<task, loss, seat, body, told>>
          /\ waiter' = [waiter EXCEPT ![k] = r]
      BY <1>1, <1>2, <1>4 DEF PauseLost, Goto, Wait, In, pool
    <2>3. task[k] \in TaskState /\ loss[k] \in LossState
      BY DEF ForceInv, Types
    <2>4. /\ r \in WaiterState
          /\ r.at = "relocate" /\ r.worker = waiter[k].worker /\ r.entered = waiter[k].entered
          /\ r.evidence = waiter[k].evidence /\ r.restarted = waiter[k].restarted /\ r.lost = waiter[k].lost /\ r.outcome = waiter[k].outcome
      BY <2>1, <2>2, <2>3 DEF WaiterState, TaskState, Place, Early, Late, Ending
    <2> HIDE DEF r
    <2>5. waiter'[k] = r
      BY <2>1, <2>2
    <2>6. PhaseInv(k)'
      BY <2>2, <2>3, <2>4, <2>5, NamesAssumption DEF ForceInv, PhaseInv, Its, Early, Late
    <2>7. GripInv(k)'
      BY <2>2, <2>3, <2>4, <2>5, NamesAssumption DEF ForceInv, GripInv, Its, Up, Early, Late
    <2>8. TrailInv(k)'
      BY <2>2, <2>3, <2>4, <2>5, NamesAssumption DEF ForceInv, TrailInv, Its, Up, Early, Late
    <2>9. EvidenceInv(k)'
      BY <2>2, <2>3, <2>4, <2>5, NamesAssumption DEF ForceInv, EvidenceInv, Its, Placed
    <2>10. OutcomeInv(k)'
      BY <2>2, <2>3, <2>4, <2>5, NamesAssumption DEF ForceInv, OutcomeInv, PhaseInv, Early, Late, Alive, RunsOn, MayRunOn, Up, Its, Ending
    <2> QED
      BY <2>1, <2>2, <2>3, <2>4, <2>6, <2>7, <2>8, <2>9, <2>10, OwnStep
  <1> QED
    BY <1>3, <1>4

LEMMA KillKeeps == ASSUME ForceInv, NEW k \in Command, Kill(k) PROVE ForceInv'
  <1>1. Types
    BY DEF ForceInv
  <1>2. waiter[k].at = "restart"
    BY DEF Kill, In
  <1>3. PICK w \in Worker : Its(k) = w
    BY <1>1, <1>2 DEF ForceInv, Types, PhaseInv, WaiterState, Place, Its
  <1>4. /\ Up(w)
        /\ body' = [body EXCEPT ![w] = Dead]
        /\ told' = [told EXCEPT ![w] = <<>>]
        /\ UNCHANGED <<task, hold, loss, seat, waiter>>
    BY <1>1, <1>3 DEF Kill, Body, pool
  <1>5. /\ body' \in [Worker -> BodyState] /\ \A v \in Worker : v # w => body'[v] = body[v]
        /\ body'[w].life = "dead"
        /\ body'[w].gate = NoCommand
        /\ body'[w].inside = NoCommand
        /\ body'[w].mail = {}
        /\ body'[w].has = {}
        /\ body'[w].ended = {}
    BY <1>1, <1>4 DEF Types, BodyState, Key, Dead, Unborn
  <1>6. Types'
    BY <1>1, <1>2, <1>3, <1>4, <1>5 DEF Types
  <1>7. ASSUME NEW v \in Worker PROVE BodyInv(v)'
    BY <1>2, <1>3, <1>4, <1>5 DEF ForceInv, BodyInv, Up, Its
  <1>8. ASSUME NEW v \in Worker PROVE SeatInv(v)'
    BY <1>2, <1>3, <1>4, <1>5 DEF ForceInv, SeatInv, Up, Its
  <1>9. ASSUME NEW j \in Command PROVE TaskInv(j)'
    BY <1>2, <1>3, <1>4, <1>5 DEF ForceInv, TaskInv, On, Alive, RunsOn, MayRunOn, Placed,
       Up, Its
  <1>10. ASSUME NEW j \in Command PROVE PhaseInv(j)'
    BY <1>2, <1>3, <1>4, <1>5 DEF ForceInv, PhaseInv, Alive, RunsOn, MayRunOn, Up, Its,
       Early, Late
  <1>11. ASSUME NEW j \in Command PROVE GripInv(j)'
    BY <1>2, <1>3, <1>4, <1>5 DEF ForceInv, GripInv, Placed, Up, Its
  <1>12. ASSUME NEW j \in Command PROVE TrailInv(j)'
    BY <1>2, <1>3, <1>4, <1>5 DEF ForceInv, TrailInv, Up, Its, Early, Late
  <1>13. ASSUME NEW j \in Command PROVE EvidenceInv(j)'
    BY <1>2, <1>3, <1>4, <1>5 DEF ForceInv, EvidenceInv, Placed, Up, Its
  <1>14. ASSUME NEW j \in Command PROVE OutcomeInv(j)'
    BY <1>2, <1>3, <1>4, <1>5 DEF ForceInv, OutcomeInv, Alive, RunsOn, MayRunOn, Up, Its,
       Ending
  <1> QED
    BY <1>6, <1>7, <1>8, <1>9, <1>10, <1>11, <1>12, <1>13, <1>14 DEF ForceInv

LEMMA UngateKeeps == ASSUME ForceInv, NEW k \in Command, Ungate(k) PROVE ForceInv'
  <1>1. waiter[k].at = "ungate"
    BY DEF Ungate, In
  <1>2. PICK w \in Worker : Its(k) = w
    BY <1>1 DEF ForceInv, Types, PhaseInv, WaiterState, Place, Its
  <1>3. CASE Up(w) /\ body[w].gate = k
    <2>1. Types
      BY DEF ForceInv
    <2>2. /\ waiter[k].at = "ungate" /\ Its(k) = w
          /\ Up(w) /\ body[w].gate = k
          /\ body' = [body EXCEPT ![w] = [body[w] EXCEPT !.gate = NoCommand]]
          /\ waiter' = [waiter EXCEPT ![k] = [waiter[k] EXCEPT !.at = "end", !.worker = NoWorker]]
          /\ UNCHANGED <<task, hold, loss, seat>>
      BY <1>1, <1>2, <1>3 DEF Ungate, Ungates, Body, Wait, In, pool
    <2>3. ~waiter[k].restarted
      BY <2>2 DEF ForceInv, PhaseInv
    <2>4. /\ body' \in [Worker -> BodyState] /\ \A v \in Worker : v # w => body'[v] = body[v]
          /\ body'[w].life = body[w].life
          /\ body'[w].gate = NoCommand
          /\ body'[w].inside = body[w].inside
          /\ body'[w].mail = body[w].mail
          /\ body'[w].has = body[w].has
          /\ body'[w].ended = body[w].ended
      BY <2>1, <2>2, NoCommand \in Key, Gating DEF Key
    <2>5. told' \in [Worker -> Seq({"running", "paused"})]
      BY <2>1, <1>1, <1>2, <1>3, Telling DEF Ungate, Ungates
    <2>6. /\ waiter' \in [Command -> WaiterState] /\ \A j \in Command : j # k => waiter'[j] = waiter[j]
          /\ waiter'[k].at = "end"
          /\ waiter'[k].worker = NoWorker
          /\ waiter'[k].entered = waiter[k].entered
          /\ waiter'[k].evidence = waiter[k].evidence
          /\ waiter'[k].restarted = waiter[k].restarted
          /\ waiter'[k].lost = waiter[k].lost
          /\ waiter'[k].outcome = waiter[k].outcome
      BY <2>1, <2>2 DEF Types, WaiterState, Place, Early, Late, Ending
    <2>7. Types'
      BY <2>1, <2>2, <2>3, <2>4, <2>5, <2>6 DEF Types
    <2>8. ASSUME NEW v \in Worker PROVE BodyInv(v)'
      BY <2>2, <2>3, <2>4, <2>5, <2>6 DEF ForceInv, BodyInv, Up, Its
    <2>9. ASSUME NEW v \in Worker PROVE SeatInv(v)'
      BY <2>2, <2>3, <2>4, <2>5, <2>6 DEF ForceInv, SeatInv, Up, Its
    <2>10. ASSUME NEW j \in Command PROVE TaskInv(j)'
      BY <2>2, <2>3, <2>4, <2>5, <2>6 DEF ForceInv, TaskInv, On, Alive, RunsOn, MayRunOn,
         Placed, Up, Its
    <2>11. ASSUME NEW j \in Command PROVE PhaseInv(j)'
      BY <2>2, <2>3, <2>4, <2>5, <2>6 DEF ForceInv, PhaseInv, Alive, RunsOn, MayRunOn, Up,
         Its, Early, Late
    <2>12. ASSUME NEW j \in Command PROVE GripInv(j)'
      BY <2>2, <2>3, <2>4, <2>5, <2>6 DEF ForceInv, GripInv, Placed, Up, Its
    <2>13. ASSUME NEW j \in Command PROVE TrailInv(j)'
      BY <2>2, <2>3, <2>4, <2>5, <2>6, NamesAssumption DEF ForceInv, TrailInv, Up, Its, Early,
         Late
    <2>14. ASSUME NEW j \in Command PROVE EvidenceInv(j)'
      BY <2>2, <2>3, <2>4, <2>5, <2>6 DEF ForceInv, EvidenceInv, Placed, Up, Its
    <2>15. ASSUME NEW j \in Command PROVE OutcomeInv(j)'
      BY <2>2, <2>3, <2>4, <2>5, <2>6 DEF ForceInv, OutcomeInv, Alive, RunsOn, MayRunOn, Up,
         Its, Ending
    <2> QED
      BY <2>7, <2>8, <2>9, <2>10, <2>11, <2>12, <2>13, <2>14, <2>15 DEF ForceInv
  <1>4. CASE ~(Up(w) /\ body[w].gate = k)
    <2> DEFINE r == [waiter[k] EXCEPT !.at = "end", !.worker = NoWorker]
    <2>1. waiter[k] \in WaiterState /\ waiter \in [Command -> WaiterState] /\ hold \subseteq Command
      BY DEF ForceInv, Types
    <2>2. /\ waiter[k].at = "ungate"
          /\ hold' = hold
          /\ Its(k) = w
          /\ UNCHANGED <<task, loss, seat, body, told>>
          /\ waiter' = [waiter EXCEPT ![k] = r]
      BY <1>1, <1>2, <1>4 DEF Ungate, Ungates, Wait, In, pool
    <2>3. task[k] \in TaskState /\ loss[k] \in LossState /\ ~waiter[k].restarted
      BY <2>2 DEF ForceInv, Types, PhaseInv
    <2>4. /\ r \in WaiterState
          /\ r.at = "end" /\ r.worker = NoWorker /\ r.entered = waiter[k].entered
          /\ r.evidence = waiter[k].evidence /\ r.restarted = waiter[k].restarted /\ r.lost = waiter[k].lost /\ r.outcome = waiter[k].outcome
      BY <2>1, <2>2, <2>3 DEF WaiterState, TaskState, Place, Early, Late, Ending
    <2> HIDE DEF r
    <2>5. waiter'[k] = r
      BY <2>1, <2>2
    <2>6. PhaseInv(k)'
      BY <2>2, <2>3, <2>4, <2>5, NamesAssumption DEF ForceInv, PhaseInv, Its, Early, Late
    <2>7. GripInv(k)'
      BY <2>2, <2>3, <2>4, <2>5, NamesAssumption DEF ForceInv, GripInv, Its, Up, Early, Late
    <2>8. TrailInv(k)'
      BY <1>4, <2>2, <2>3, <2>4, <2>5, NamesAssumption DEF ForceInv, TrailInv, Its, Up, Early, Late
    <2>9. EvidenceInv(k)'
      BY <2>2, <2>3, <2>4, <2>5, NamesAssumption DEF ForceInv, EvidenceInv, Its, Placed
    <2>10. OutcomeInv(k)'
      BY <2>2, <2>3, <2>4, <2>5, NamesAssumption, ZenonT(40) DEF ForceInv, OutcomeInv, PhaseInv, Early, Late, Alive, RunsOn, MayRunOn, Up, Its, Ending
    <2> QED
      BY <2>1, <2>2, <2>3, <2>4, <2>6, <2>7, <2>8, <2>9, <2>10, OwnStep
  <1> QED
    BY <1>3, <1>4

-----------------------------------------------------------------------------
(* Steps of a waiter at the scheduler.                                     *)

LEMMA ResumeWorkerKeeps == ASSUME ForceInv, NEW k \in Command, ResumeWorker(k) PROVE ForceInv'
  <1>1. waiter[k].at = "resume"
    BY DEF ResumeWorker, In
  <1>2. PICK w \in Worker : Its(k) = w
    BY <1>1 DEF ForceInv, Types, PhaseInv, WaiterState, Place, Its
  <1>3. CASE seat[w].here /\ seat[w].fence = k
    <2>1. Types
      BY DEF ForceInv
    <2>2. /\ waiter[k].at = "resume" /\ Its(k) = w
          /\ seat[w].here /\ seat[w].fence = k
          /\ seat' = [seat EXCEPT ![w] = [seat[w] EXCEPT !.fence = NoCommand, !.status = "running"]]
          /\ waiter' = [waiter EXCEPT ![k] = [waiter[k] EXCEPT !.at = "ungate"]]
          /\ UNCHANGED <<task, hold, loss, body, told>>
      BY <1>1, <1>2, <1>3 DEF ResumeWorker, Seat, Goto, Wait, In
    <2>3. ~waiter[k].restarted
      BY <2>2 DEF ForceInv, PhaseInv
    <2>4. /\ seat' \in [Worker -> SeatState] /\ \A v \in Worker : v # w => seat'[v] = seat[v]
          /\ seat'[w].here = seat[w].here
          /\ seat'[w].status = "running"
          /\ seat'[w].fence = NoCommand
          /\ seat'[w].restart = seat[w].restart
      BY <2>1, <2>2 DEF Types, SeatState, Key
    <2>5. /\ waiter' \in [Command -> WaiterState] /\ \A j \in Command : j # k => waiter'[j] = waiter[j]
          /\ waiter'[k].at = "ungate"
          /\ waiter'[k].worker = waiter[k].worker
          /\ waiter'[k].entered = waiter[k].entered
          /\ waiter'[k].evidence = waiter[k].evidence
          /\ waiter'[k].restarted = waiter[k].restarted
          /\ waiter'[k].lost = waiter[k].lost
          /\ waiter'[k].outcome = waiter[k].outcome
      BY <2>1, <2>2, ZenonT(40) DEF Types, WaiterState, Place, Early, Late, Ending
    <2>6. Types'
      BY <2>1, <2>2, <2>3, <2>4, <2>5 DEF Types
    <2>7. ASSUME NEW v \in Worker PROVE BodyInv(v)'
      BY <2>2, <2>3, <2>4, <2>5 DEF ForceInv, BodyInv, Its
    <2>8. ASSUME NEW v \in Worker PROVE SeatInv(v)'
      BY <2>2, <2>3, <2>4, <2>5 DEF ForceInv, SeatInv, Up, Its
    <2>9. ASSUME NEW j \in Command PROVE TaskInv(j)'
      BY <2>2, <2>3, <2>4, <2>5 DEF ForceInv, TaskInv, On, Alive, RunsOn, MayRunOn, Placed,
         Up, Its
    <2>10. ASSUME NEW j \in Command PROVE PhaseInv(j)'
      BY <2>2, <2>3, <2>4, <2>5 DEF ForceInv, PhaseInv, Alive, RunsOn, MayRunOn, Up, Its,
         Early, Late
    <2>11. ASSUME NEW j \in Command PROVE GripInv(j)'
      BY <2>2, <2>3, <2>4, <2>5 DEF ForceInv, GripInv, Placed, Up, Its
    <2>12. ASSUME NEW j \in Command PROVE TrailInv(j)'
      BY <2>2, <2>3, <2>4, <2>5, NamesAssumption DEF ForceInv, TrailInv, Up, Its, Early, Late
    <2>13. ASSUME NEW j \in Command PROVE EvidenceInv(j)'
      BY <2>2, <2>3, <2>4, <2>5 DEF ForceInv, EvidenceInv, Placed, Its
    <2>14. ASSUME NEW j \in Command PROVE OutcomeInv(j)'
      BY <2>2, <2>3, <2>4, <2>5 DEF ForceInv, OutcomeInv, Alive, RunsOn, MayRunOn, Up, Its,
         Ending
    <2> QED
      BY <2>6, <2>7, <2>8, <2>9, <2>10, <2>11, <2>12, <2>13, <2>14 DEF ForceInv
  <1>4. CASE ~(seat[w].here /\ seat[w].fence = k)
    <2> DEFINE r == [waiter[k] EXCEPT !.at = "ungate"]
    <2>1. waiter[k] \in WaiterState /\ waiter \in [Command -> WaiterState] /\ hold \subseteq Command
      BY DEF ForceInv, Types
    <2>2. /\ waiter[k].at = "resume"
          /\ hold' = hold
          /\ Its(k) = w
          /\ UNCHANGED <<task, loss, seat, body, told>>
          /\ waiter' = [waiter EXCEPT ![k] = r]
      BY <1>1, <1>2, <1>4 DEF ResumeWorker, Goto, Wait, In
    <2>3. task[k] \in TaskState /\ loss[k] \in LossState /\ ~waiter[k].restarted
      BY <2>2 DEF ForceInv, Types, PhaseInv
    <2>4. /\ r \in WaiterState
          /\ r.at = "ungate" /\ r.worker = waiter[k].worker /\ r.entered = waiter[k].entered
          /\ r.evidence = waiter[k].evidence /\ r.restarted = waiter[k].restarted /\ r.lost = waiter[k].lost /\ r.outcome = waiter[k].outcome
      BY <2>1, <2>2, <2>3 DEF WaiterState, TaskState, Place, Early, Late, Ending
    <2> HIDE DEF r
    <2>5. waiter'[k] = r
      BY <2>1, <2>2
    <2>6. PhaseInv(k)'
      BY <2>2, <2>3, <2>4, <2>5, NamesAssumption DEF ForceInv, PhaseInv, Its, Early, Late
    <2>7. GripInv(k)'
      BY <2>2, <2>3, <2>4, <2>5, NamesAssumption DEF ForceInv, GripInv, Its, Up, Early, Late
    <2>8. TrailInv(k)'
      BY <1>4, <2>2, <2>3, <2>4, <2>5, NamesAssumption DEF ForceInv, TrailInv, SeatInv, Its, Up, Early, Late
    <2>9. EvidenceInv(k)'
      BY <2>2, <2>3, <2>4, <2>5, NamesAssumption DEF ForceInv, EvidenceInv, Its, Placed
    <2>10. OutcomeInv(k)'
      BY <2>2, <2>3, <2>4, <2>5, NamesAssumption, ZenonT(40) DEF ForceInv, OutcomeInv, PhaseInv, Early, Late, Alive, RunsOn, MayRunOn, Up, Its, Ending
    <2> QED
      BY <2>1, <2>2, <2>3, <2>4, <2>6, <2>7, <2>8, <2>9, <2>10, OwnStep
  <1> QED
    BY <1>3, <1>4

LEMMA BeginRestartKeeps == ASSUME ForceInv, NEW k \in Command, BeginRestart(k) PROVE ForceInv'
  <1>1. waiter[k].at = "begin"
    BY DEF BeginRestart, In
  <1>2. PICK w \in Worker : Its(k) = w
    BY <1>1 DEF ForceInv, Types, PhaseInv, WaiterState, Place, Its
  <1>3. CASE Owned(k)
    <2>1. Types
      BY DEF ForceInv
    <2>2. PICK E \in SUBSET Command :
             /\ \A j \in Command : j \in E <=> Placed(j, w)
             /\ waiter' = [waiter EXCEPT ![k] = [waiter[k] EXCEPT !.at = "restart", !.restarted = TRUE, !.evidence = E]]
      BY <1>1, <1>2, <1>3 DEF BeginRestart, Wait
    <2>3. /\ waiter[k].at = "begin" /\ Its(k) = w
          /\ seat[w].here /\ seat[w].status = "paused" /\ seat[w].fence = k
          /\ seat' = [seat EXCEPT ![w] = [seat[w] EXCEPT !.restart = k]]
          /\ UNCHANGED <<task, hold, loss, body, told>>
      BY <1>1, <1>2, <1>3 DEF BeginRestart, Owned, Seat, In
    <2>4. /\ seat' \in [Worker -> SeatState] /\ \A v \in Worker : v # w => seat'[v] = seat[v]
          /\ seat'[w].here = seat[w].here
          /\ seat'[w].status = seat[w].status
          /\ seat'[w].fence = seat[w].fence
          /\ seat'[w].restart = k
      BY <2>1, <2>3 DEF Types, SeatState, Key
    <2>5. /\ waiter' \in [Command -> WaiterState] /\ \A j \in Command : j # k => waiter'[j] = waiter[j]
          /\ waiter'[k].at = "restart"
          /\ waiter'[k].worker = waiter[k].worker
          /\ waiter'[k].entered = waiter[k].entered
          /\ waiter'[k].evidence = E
          /\ waiter'[k].restarted = TRUE
          /\ waiter'[k].lost = waiter[k].lost
          /\ waiter'[k].outcome = waiter[k].outcome
      BY <2>1, <2>2, Beginning
    <2>6. Types'
      BY <2>1, <2>2, <2>3, <2>4, <2>5 DEF Types
    <2>7. ASSUME NEW v \in Worker PROVE BodyInv(v)'
      BY <2>2, <2>3, <2>4, <2>5 DEF ForceInv, BodyInv, Placed, Its
    <2>8. ASSUME NEW v \in Worker PROVE SeatInv(v)'
      BY <2>2, <2>3, <2>4, <2>5, NamesAssumption DEF ForceInv, SeatInv, TrailInv, PhaseInv,
         GripInv, BodyInv, Alive, RunsOn, MayRunOn, Placed, Up, Its, Early, Late
    <2>9. ASSUME NEW j \in Command PROVE TaskInv(j)'
      BY <2>2, <2>3, <2>4, <2>5 DEF ForceInv, TaskInv, On, Alive, RunsOn, MayRunOn, Placed,
         Up, Its
    <2>10. ASSUME NEW j \in Command PROVE PhaseInv(j)'
      BY <2>2, <2>3, <2>4, <2>5 DEF ForceInv, PhaseInv, Alive, RunsOn, MayRunOn, Placed, Up,
         Its, Early, Late
    <2>11. ASSUME NEW j \in Command PROVE GripInv(j)'
      BY <2>2, <2>3, <2>4, <2>5 DEF ForceInv, GripInv, Placed, Up, Its
    <2>12. ASSUME NEW j \in Command PROVE TrailInv(j)'
      BY <2>2, <2>3, <2>4, <2>5 DEF ForceInv, TrailInv, Placed, Up, Its, Early, Late
    <2>13. ASSUME NEW j \in Command PROVE EvidenceInv(j)'
      BY <2>2, <2>3, <2>4, <2>5, NamesAssumption DEF ForceInv, EvidenceInv, SeatInv, TaskInv,
         PhaseInv, On, Alive, RunsOn, MayRunOn, Placed, Up, Its, Early, Late
    <2>14. ASSUME NEW j \in Command PROVE OutcomeInv(j)'
      BY <2>2, <2>3, <2>4, <2>5 DEF ForceInv, OutcomeInv, Alive, RunsOn, MayRunOn, Placed, Up,
         Its, Ending
    <2> QED
      BY <2>6, <2>7, <2>8, <2>9, <2>10, <2>11, <2>12, <2>13, <2>14 DEF ForceInv
  <1>4. CASE ~Owned(k)
    BY <1>1, <1>4, GivingUp DEF BeginRestart, pool, Late
  <1> QED
    BY <1>3, <1>4

LEMMA DropKeeps == ASSUME ForceInv, NEW k \in Command, Drop(k) PROVE ForceInv'
  <1>1. Types
    BY DEF ForceInv
  <1>2. /\ waiter[k].at = "end" /\ waiter[k].outcome = "failed" /\ task[k].at \in {"queued", "placed"}
        /\ task' = [task EXCEPT ![k] = [at |-> "gone", on |-> NoWorker]]
        /\ UNCHANGED <<hold, loss, seat, body, told, waiter>>
    BY DEF Drop, Task, In
  <1>3. /\ task' \in [Command -> TaskState] /\ \A j \in Command : j # k => task'[j] = task[j]
        /\ task'[k].at = "gone" /\ task'[k].on = NoWorker
    BY <1>1, <1>2 DEF Types, TaskState, Place
  <1>4. Types'
    BY <1>1, <1>2, <1>3 DEF Types
  <1>5. ASSUME NEW v \in Worker PROVE BodyInv(v)'
    BY <1>2, <1>3 DEF ForceInv, BodyInv
  <1>6. ASSUME NEW v \in Worker PROVE SeatInv(v)'
    BY <1>2, <1>3 DEF ForceInv, SeatInv, Up, Its
  <1>7. ASSUME NEW j \in Command PROVE TaskInv(j)'
    BY <1>2, <1>3 DEF ForceInv, TaskInv, On, Alive, RunsOn, MayRunOn, Placed, Up
  <1>8. ASSUME NEW j \in Command PROVE PhaseInv(j)'
    BY <1>2, <1>3 DEF ForceInv, PhaseInv, Alive, RunsOn, MayRunOn, Up, Its, Early, Late
  <1>9. ASSUME NEW j \in Command PROVE GripInv(j)'
    BY <1>2, <1>3 DEF ForceInv, GripInv, Placed, Up, Its
  <1>10. ASSUME NEW j \in Command PROVE TrailInv(j)'
    BY <1>2, <1>3 DEF ForceInv, TrailInv, Up, Its, Early, Late
  <1>11. ASSUME NEW j \in Command PROVE EvidenceInv(j)'
    BY <1>2, <1>3, NamesAssumption DEF ForceInv, EvidenceInv, SeatInv, TaskInv, PhaseInv,
       On, Alive, RunsOn, MayRunOn, Placed, Up, Its, Early, Late
  <1>12. ASSUME NEW j \in Command PROVE OutcomeInv(j)'
    BY <1>2, <1>3 DEF ForceInv, OutcomeInv, Alive, RunsOn, MayRunOn, Up, Its, Ending
  <1> QED
    BY <1>4, <1>5, <1>6, <1>7, <1>8, <1>9, <1>10, <1>11, <1>12 DEF ForceInv

LEMMA CertifyKeeps == ASSUME ForceInv, NEW k \in Command, Certify(k) PROVE ForceInv'
  <1>1. Types
    BY DEF ForceInv
  <1>2. waiter[k].at = "restart"
    BY DEF Certify, In
  <1>3. PICK w \in Worker : Its(k) = w
    BY <1>1, <1>2 DEF ForceInv, Types, PhaseInv, WaiterState, Place, Its
  <1>4. /\ body[w].life = "dead" /\ ~seat[w].here
        /\ UNCHANGED <<task, hold, seat, body, told>>
    BY <1>1, <1>2, <1>3 DEF Certify, Restarted
  <1>5. loss' = [j \in Command |-> IF j \in waiter[k].evidence /\ loss[j].pending = w
                                   THEN [loss[j] EXCEPT !.pending = NoWorker] ELSE loss[j]]
    BY <1>3 DEF Certify
  <1>6. \A j \in Command : loss[j].pending = w => j \in waiter[k].evidence
    BY <1>2, <1>3 DEF ForceInv, EvidenceInv, Its
  <1>7. loss' = [j \in Command |-> IF loss[j].pending = w THEN [loss[j] EXCEPT !.pending = NoWorker] ELSE loss[j]]
    BY <1>5, <1>6
  <1>8. /\ loss' \in [Command -> LossState]
        /\ \A j \in Command : loss'[j].unknown = loss[j].unknown
        /\ \A j \in Command : loss[j].pending = w => loss'[j].pending = NoWorker
        /\ \A j \in Command : loss[j].pending # w => loss'[j].pending = loss[j].pending
    BY <1>1, <1>7 DEF Types, LossState, Place
  <1>9. /\ waiter' \in [Command -> WaiterState] /\ \A j \in Command : j # k => waiter'[j] = waiter[j]
        /\ waiter'[k].at = "unhold"
        /\ waiter'[k].worker = waiter[k].worker
        /\ ~waiter'[k].entered
        /\ waiter'[k].evidence = {}
        /\ waiter'[k].restarted = waiter[k].restarted
        /\ waiter'[k].lost = waiter[k].lost
        /\ waiter'[k].outcome = "confirmed"
    BY <1>1, Settling DEF Certify
  <1>10. Types'
    BY <1>1, <1>2, <1>3, <1>4, <1>8, <1>9 DEF Types
  <1>11. ASSUME NEW v \in Worker PROVE BodyInv(v)'
    BY <1>2, <1>3, <1>4, <1>8, <1>9 DEF ForceInv, BodyInv, Its
  <1>12. ASSUME NEW v \in Worker PROVE SeatInv(v)'
    <2>1. SeatInv(v) /\ seat[v] \in SeatState
      BY DEF ForceInv, Types
    <2>2. CASE seat[v].restart = k
      BY <1>4, <1>9, <2>1, <2>2 DEF SeatInv, Its, Up
    <2>3. CASE seat[v].restart \in Command \ {k}
      BY <1>4, <1>9, <2>1, <2>3 DEF SeatInv, Its, Up
    <2>4. CASE seat[v].restart = NoCommand
      BY <1>4, <2>1, <2>4 DEF SeatInv, Up
    <2> QED
      BY <2>1, <2>2, <2>3, <2>4 DEF SeatState, Key
  <1>13. ASSUME NEW j \in Command PROVE TaskInv(j)'
    BY <1>2, <1>3, <1>4, <1>8, <1>9 DEF ForceInv, TaskInv, On, Alive, RunsOn, MayRunOn,
       Placed, Up, Its
  <1>14. ASSUME NEW j \in Command PROVE PhaseInv(j)'
    BY <1>2, <1>4, <1>9 DEF ForceInv, PhaseInv, Alive, RunsOn, MayRunOn, Up, Its, Early, Late
  <1>15. ASSUME NEW j \in Command PROVE GripInv(j)'
    BY <1>2, <1>4, <1>9 DEF ForceInv, GripInv, Placed, Up, Its
  <1>16. ASSUME NEW j \in Command PROVE TrailInv(j)'
    BY <1>2, <1>3, <1>4, <1>9 DEF ForceInv, TrailInv, PhaseInv, Up, Its, Late
  <1>17. ASSUME NEW j \in Command PROVE EvidenceInv(j)'
    BY <1>2, <1>4, <1>8, <1>9 DEF ForceInv, PhaseInv, EvidenceInv, Placed, Its
  <1>18. ASSUME NEW j \in Command PROVE OutcomeInv(j)'
    <2>1. CASE j # k
      <3>1. OutcomeInv(j) /\ (waiter[j].restarted => Its(j) # NoWorker)
        BY DEF ForceInv, PhaseInv
      <3>2. waiter'[j] = waiter[j] /\ Its(j)' = Its(j)
        BY <1>9, <2>1 DEF Its
      <3>3. \A i \in Command : loss'[i].pending \in {loss[i].pending, NoWorker}
        BY <1>8
      <3>4. \A v \in Worker : Alive(j, v)' <=> Alive(j, v)
        BY <1>4 DEF Alive, RunsOn, MayRunOn, Up
      <3> QED
        BY <1>4, <3>1, <3>2, <3>3, <3>4 DEF OutcomeInv
    <2>2. \A v \in Worker : ~Alive(k, v)'
      BY <1>2, <1>3, <1>4 DEF ForceInv, PhaseInv, Alive, RunsOn, MayRunOn, Up, Late
    <2>3. task'[k].at = "gone"
      BY <1>2, <1>4 DEF ForceInv, PhaseInv, Late
    <2>4. ~seat'[Its(k)'].here /\ \A i \in Command : loss'[i].pending # Its(k)'
      BY <1>3, <1>4, <1>8, <1>9, NamesAssumption DEF Its
    <2>5. CASE j = k
      BY <1>9, <2>2, <2>3, <2>4, <2>5 DEF OutcomeInv, Ending
    <2> QED
      BY <2>1, <2>5
  <1> QED
    BY <1>10, <1>11, <1>12, <1>13, <1>14, <1>15, <1>16, <1>17, <1>18 DEF ForceInv

LEMMA PrepareKeeps == ASSUME ForceInv, NEW k \in Command, Prepare(k) PROVE ForceInv'
  <1>1. CASE task[k].on = NoWorker
    <2>1. Types
      BY DEF ForceInv
    <2>2. /\ waiter[k].at = "prepare" /\ ~loss[k].unknown /\ loss[k].pending = NoWorker
          /\ task[k].at # "over" /\ task[k].on = NoWorker
          /\ task' = [task EXCEPT ![k] = [at |-> "gone", on |-> NoWorker]]
          /\ UNCHANGED <<hold, loss, seat, body, told>>
      BY <1>1 DEF Prepare, Ready, Refused, Withdraw, Task, In
    <2>3. /\ task' \in [Command -> TaskState] /\ \A j \in Command : j # k => task'[j] = task[j]
          /\ task'[k].at = "gone" /\ task'[k].on = NoWorker
      BY <2>1, <2>2 DEF Types, TaskState, Place
    <2>4. /\ waiter' \in [Command -> WaiterState] /\ \A j \in Command : j # k => waiter'[j] = waiter[j]
          /\ waiter'[k].at = "ack"
          /\ waiter'[k].worker = NoWorker
          /\ waiter'[k].entered = waiter[k].entered
          /\ waiter'[k].evidence = waiter[k].evidence
          /\ waiter'[k].restarted = waiter[k].restarted
          /\ waiter'[k].lost = waiter[k].lost
          /\ waiter'[k].outcome = waiter[k].outcome
      BY <2>1, <1>1, Preparing DEF Prepare, Its, Placed
    <2>5. /\ ~waiter[k].restarted /\ waiter[k].outcome = "none"
          /\ \A v \in Worker : ~Alive(k, v)
          /\ Its(k) # NoWorker => ~seat[Its(k)].here
      BY <2>2, NamesAssumption DEF ForceInv, PhaseInv, TaskInv, GripInv, Placed, Early
    <2>6. Types'
      BY <2>1, <2>2, <2>3, <2>4, <2>5 DEF Types
    <2>7. ASSUME NEW v \in Worker PROVE BodyInv(v)'
      BY <2>2, <2>3, <2>4, <2>5 DEF ForceInv, BodyInv, Alive, RunsOn, MayRunOn, Up, Its
    <2>8. ASSUME NEW v \in Worker PROVE SeatInv(v)'
      <3>1. SeatInv(v) /\ seat[v] \in SeatState
        BY DEF ForceInv, Types
      <3>2. seat[v].restart # k /\ seat'[v].restart = seat[v].restart /\ seat'[v].here = seat[v].here
        BY <2>2, <2>5, <3>1, NamesAssumption DEF SeatInv
      <3>3. seat[v].restart # NoCommand => seat'[v] = seat[v]
        BY <2>2, <2>5
      <3>4. CASE seat[v].restart \in Command \ {k}
        BY <2>2, <2>4, <3>1, <3>2, <3>3, <3>4, NamesAssumption DEF SeatInv, Its, Up
      <3>5. CASE seat[v].restart = NoCommand
        BY <2>2, <2>5, <3>1, <3>2, <3>5 DEF SeatInv, Up
      <3> QED
        BY <3>1, <3>2, <3>4, <3>5 DEF SeatState, Key
    <2>9. ASSUME NEW j \in Command PROVE TaskInv(j)'
      BY <2>2, <2>3, <2>4, <2>5 DEF ForceInv, TaskInv, On, Alive, RunsOn, MayRunOn, Placed,
         Up, Its
    <2>10. ASSUME NEW j \in Command PROVE PhaseInv(j)'
      <3>1. PhaseInv(j) /\ NoWorker \notin Worker
        BY NamesAssumption DEF ForceInv
      <3>2. \A v \in Worker : Alive(j, v)' <=> Alive(j, v)
        BY <2>2 DEF Alive, RunsOn, MayRunOn, Up
      <3>3. CASE j # k
        BY <2>2, <2>4, <2>3, <3>1, <3>2, <3>3 DEF PhaseInv, Its
      <3>4. CASE j = k
        BY <2>2, <2>4, <2>5, <2>3, <3>1, <3>2, <3>4 DEF PhaseInv, Its, Early, Late
      <3> QED
        BY <3>3, <3>4
    <2>11. ASSUME NEW j \in Command PROVE GripInv(j)'
      BY <2>2, <2>3, <2>4, <2>5 DEF ForceInv, GripInv, Alive, RunsOn, MayRunOn, Placed, Up,
         Its
    <2>12. ASSUME NEW j \in Command PROVE TrailInv(j)'
      <3>1. TrailInv(j)
        BY DEF ForceInv
      <3>2. CASE j # k
        BY <2>2, <2>4, NamesAssumption, <3>1, <3>2 DEF TrailInv, Its, Up, Early, Late
      <3>3. CASE j = k
        BY <2>2, <2>4, <2>5, NamesAssumption, <3>1, <3>3 DEF TrailInv, Its, Up, Early, Late
      <3> QED
        BY <3>2, <3>3
    <2>13. ASSUME NEW j \in Command PROVE EvidenceInv(j)'
      <3>1. EvidenceInv(j)
        BY DEF ForceInv
      <3>2. CASE j # k
        <4>1. waiter'[j] = waiter[j] /\ Its(j)' = Its(j)
          BY <2>4, <3>2 DEF Its
        <4>2. \A i \in Command : waiter[j].at = "restart" /\ Placed(i, Its(j))' => Placed(i, Its(j))
          BY <2>3, <4>1, NamesAssumption DEF ForceInv, PhaseInv, Placed, Its
        <4> QED
          BY <2>2, <3>1, <4>1, <4>2 DEF EvidenceInv
      <3>3. CASE j = k
        BY <2>4, <3>3 DEF EvidenceInv
      <3> QED
        BY <3>2, <3>3
    <2>14. ASSUME NEW j \in Command PROVE OutcomeInv(j)'
      BY <2>2, <2>3, <2>4, <2>5 DEF ForceInv, OutcomeInv, Alive, RunsOn, MayRunOn, Up, Its,
         Ending
    <2> QED
      BY <2>6, <2>7, <2>8, <2>9, <2>10, <2>11, <2>12, <2>13, <2>14 DEF ForceInv
  <1>2. ASSUME task[k].on # NoWorker PROVE ForceInv'
    <2>0. PICK w \in Worker : task[k].on = w
      BY <1>2 DEF ForceInv, Types, TaskState, Place
    <2>1. Types
      BY DEF ForceInv
    <2>2. /\ waiter[k].at = "prepare" /\ ~loss[k].unknown /\ loss[k].pending = NoWorker
          /\ task[k].at # "over" /\ Placed(k, w) /\ Its(k) = w
          /\ seat[w].fence \in {NoCommand, k}
          /\ task' = [task EXCEPT ![k] = [at |-> "gone", on |-> NoWorker]]
          /\ seat' = [seat EXCEPT ![w] = [seat[w] EXCEPT !.fence = k, !.status = "paused"]]
          /\ UNCHANGED <<hold, loss, body, told>>
      BY <1>2, <2>0, NamesAssumption DEF Prepare, Ready, Refused, Moved, Withdraw, Task, Seat, Placed, In
    <2>3. /\ task' \in [Command -> TaskState] /\ \A j \in Command : j # k => task'[j] = task[j]
          /\ task'[k].at = "gone" /\ task'[k].on = NoWorker
      BY <2>1, <2>2 DEF Types, TaskState, Place
    <2>4. /\ seat' \in [Worker -> SeatState] /\ \A v \in Worker : v # w => seat'[v] = seat[v]
          /\ seat'[w].here = seat[w].here
          /\ seat'[w].status = "paused"
          /\ seat'[w].fence = k
          /\ seat'[w].restart = seat[w].restart
      BY <2>1, <2>2 DEF Types, SeatState, Key
    <2>5. /\ waiter' \in [Command -> WaiterState] /\ \A j \in Command : j # k => waiter'[j] = waiter[j]
          /\ waiter'[k].at = "ack"
          /\ waiter'[k].worker = waiter[k].worker
          /\ waiter'[k].entered = waiter[k].entered
          /\ waiter'[k].evidence = waiter[k].evidence
          /\ waiter'[k].restarted = waiter[k].restarted
          /\ waiter'[k].lost = waiter[k].lost
          /\ waiter'[k].outcome = waiter[k].outcome
      BY <2>1, <1>2, <2>0, <2>2, Preparing DEF Prepare, Its, Placed
    <2>6. /\ ~waiter[k].restarted /\ waiter[k].outcome = "none"
          /\ \A v \in Worker : Alive(k, v) => v = w
          /\ seat[w].restart = NoCommand /\ seat[w].here
      BY <2>2, NamesAssumption DEF ForceInv, PhaseInv, TaskInv, SeatInv, Placed, Early
    <2>7. Types'
      BY <2>1, <2>2, <2>3, <2>4, <2>5, <2>6 DEF Types
    <2>8. ASSUME NEW v \in Worker PROVE BodyInv(v)'
      BY <2>2, <2>3, <2>4, <2>5, <2>6 DEF ForceInv, BodyInv, Alive, RunsOn, MayRunOn, Placed,
         Up, Its
    <2>9. ASSUME NEW v \in Worker PROVE SeatInv(v)'
      <3>1. SeatInv(v) /\ seat[v] \in SeatState
        BY DEF ForceInv, Types
      <3>2. seat[v].restart # k /\ seat'[v].restart = seat[v].restart /\ seat'[v].here = seat[v].here
        BY <2>2, <2>4, <2>6, <3>1, NamesAssumption DEF SeatInv
      <3>3. seat[v].restart # NoCommand => seat'[v] = seat[v]
        BY <2>2, <2>4, <2>6
      <3>4. CASE seat[v].restart \in Command \ {k}
        BY <2>2, <2>5, <3>1, <3>2, <3>3, <3>4, NamesAssumption DEF SeatInv, Its, Up
      <3>5. CASE seat[v].restart = NoCommand
        BY <2>2, <2>4, <2>6, <3>1, <3>2, <3>5 DEF SeatInv, Up
      <3> QED
        BY <3>1, <3>2, <3>4, <3>5 DEF SeatState, Key
    <2>10. ASSUME NEW j \in Command PROVE TaskInv(j)'
      BY <2>2, <2>3, <2>4, <2>5, <2>6 DEF ForceInv, TaskInv, On, Alive, RunsOn, MayRunOn,
         Placed, Up, Its
    <2>11. ASSUME NEW j \in Command PROVE PhaseInv(j)'
      <3>1. PhaseInv(j) /\ NoWorker \notin Worker
        BY NamesAssumption DEF ForceInv
      <3>2. \A v \in Worker : Alive(j, v)' <=> Alive(j, v)
        BY <2>2 DEF Alive, RunsOn, MayRunOn, Up
      <3>3. CASE j # k
        BY <2>2, <2>5, <2>3, <3>1, <3>2, <3>3 DEF PhaseInv, Its
      <3>4. CASE j = k
        BY <2>2, <2>5, <2>6, <2>3, <3>1, <3>2, <3>4 DEF PhaseInv, Its, Early, Late
      <3> QED
        BY <3>3, <3>4
    <2>12. ASSUME NEW j \in Command PROVE GripInv(j)'
      BY <2>2, <2>3, <2>4, <2>5, <2>6 DEF ForceInv, GripInv, Alive, RunsOn, MayRunOn, Placed,
         Up, Its
    <2>13. ASSUME NEW j \in Command PROVE TrailInv(j)'
      <3>1. TrailInv(j)
        BY DEF ForceInv
      <3>2. CASE j # k
        BY <2>2, <2>5, <2>4, NamesAssumption, <3>1, <3>2 DEF TrailInv, Its, Up, Early, Late
      <3>3. CASE j = k
        BY <2>2, <2>5, <2>6, <2>4, NamesAssumption, <3>1, <3>3 DEF TrailInv, Its, Up, Early, Late
      <3> QED
        BY <3>2, <3>3
    <2>14. ASSUME NEW j \in Command PROVE EvidenceInv(j)'
      <3>1. EvidenceInv(j)
        BY DEF ForceInv
      <3>2. CASE j # k
        <4>1. waiter'[j] = waiter[j] /\ Its(j)' = Its(j)
          BY <2>5, <3>2 DEF Its
        <4>2. \A i \in Command : waiter[j].at = "restart" /\ Placed(i, Its(j))' => Placed(i, Its(j))
          BY <2>3, <4>1, NamesAssumption DEF ForceInv, PhaseInv, Placed, Its
        <4> QED
          BY <2>2, <2>4, <3>1, <4>1, <4>2 DEF EvidenceInv
      <3>3. CASE j = k
        BY <2>5, <3>3 DEF EvidenceInv
      <3> QED
        BY <3>2, <3>3
    <2>15. ASSUME NEW j \in Command PROVE OutcomeInv(j)'
      BY <2>2, <2>3, <2>4, <2>5, <2>6 DEF ForceInv, OutcomeInv, Alive, RunsOn, MayRunOn,
         Placed, Up, Its, Ending
    <2> QED
      BY <2>7, <2>8, <2>9, <2>10, <2>11, <2>12, <2>13, <2>14, <2>15 DEF ForceInv
  <1> QED
    BY <1>1, <1>2

LEMMA PrepareLostKeeps == ASSUME ForceInv, NEW k \in Command, PrepareLost(k) PROVE ForceInv'
  <1>1. CASE task[k].on = NoWorker
    <2>1. Types
      BY DEF ForceInv
    <2>2. /\ waiter[k].at = "prepare" /\ ~loss[k].unknown /\ loss[k].pending = NoWorker
          /\ task[k].at # "over" /\ task[k].on = NoWorker
          /\ task' = [task EXCEPT ![k] = [at |-> "gone", on |-> NoWorker]]
          /\ UNCHANGED <<hold, loss, seat, body, told>>
      BY <1>1 DEF PrepareLost, Ready, Refused, Withdraw, Task, In
    <2>3. /\ task' \in [Command -> TaskState] /\ \A j \in Command : j # k => task'[j] = task[j]
          /\ task'[k].at = "gone" /\ task'[k].on = NoWorker
      BY <2>1, <2>2 DEF Types, TaskState, Place
    <2>4. /\ waiter' \in [Command -> WaiterState] /\ \A j \in Command : j # k => waiter'[j] = waiter[j]
          /\ waiter'[k].at = "unhold"
          /\ waiter'[k].worker = waiter[k].worker
          /\ ~waiter'[k].entered
          /\ waiter'[k].evidence = {}
          /\ waiter'[k].restarted = waiter[k].restarted
          /\ waiter'[k].lost = waiter[k].lost
          /\ waiter'[k].outcome = "failed"
      BY <2>1, Settling DEF PrepareLost
    <2>5. /\ ~waiter[k].restarted /\ waiter[k].outcome = "none"
          /\ \A v \in Worker : ~Alive(k, v)
          /\ Its(k) # NoWorker => ~seat[Its(k)].here
      BY <2>2, NamesAssumption DEF ForceInv, PhaseInv, TaskInv, GripInv, Placed, Early
    <2>6. Types'
      BY <2>1, <2>2, <2>3, <2>4, <2>5 DEF Types
    <2>7. ASSUME NEW v \in Worker PROVE BodyInv(v)'
      BY <2>2, <2>3, <2>4, <2>5 DEF ForceInv, BodyInv, Alive, RunsOn, MayRunOn, Up, Its
    <2>8. ASSUME NEW v \in Worker PROVE SeatInv(v)'
      <3>1. SeatInv(v) /\ seat[v] \in SeatState
        BY DEF ForceInv, Types
      <3>2. seat[v].restart # k /\ seat'[v].restart = seat[v].restart /\ seat'[v].here = seat[v].here
        BY <2>2, <2>5, <3>1, NamesAssumption DEF SeatInv
      <3>3. seat[v].restart # NoCommand => seat'[v] = seat[v]
        BY <2>2, <2>5
      <3>4. CASE seat[v].restart \in Command \ {k}
        BY <2>2, <2>4, <3>1, <3>2, <3>3, <3>4, NamesAssumption DEF SeatInv, Its, Up
      <3>5. CASE seat[v].restart = NoCommand
        BY <2>2, <2>5, <3>1, <3>2, <3>5 DEF SeatInv, Up
      <3> QED
        BY <3>1, <3>2, <3>4, <3>5 DEF SeatState, Key
    <2>9. ASSUME NEW j \in Command PROVE TaskInv(j)'
      BY <2>2, <2>3, <2>4, <2>5 DEF ForceInv, TaskInv, On, Alive, RunsOn, MayRunOn, Placed,
         Up, Its
    <2>10. ASSUME NEW j \in Command PROVE PhaseInv(j)'
      <3>1. PhaseInv(j) /\ NoWorker \notin Worker
        BY NamesAssumption DEF ForceInv
      <3>2. \A v \in Worker : Alive(j, v)' <=> Alive(j, v)
        BY <2>2 DEF Alive, RunsOn, MayRunOn, Up
      <3>3. CASE j # k
        BY <2>2, <2>4, <2>3, <3>1, <3>2, <3>3 DEF PhaseInv, Its
      <3>4. CASE j = k
        BY <2>2, <2>4, <2>5, <2>3, <3>1, <3>2, <3>4 DEF PhaseInv, Its, Early, Late
      <3> QED
        BY <3>3, <3>4
    <2>11. ASSUME NEW j \in Command PROVE GripInv(j)'
      BY <2>2, <2>3, <2>4, <2>5 DEF ForceInv, GripInv, Alive, RunsOn, MayRunOn, Placed, Up,
         Its
    <2>12. ASSUME NEW j \in Command PROVE TrailInv(j)'
      <3>1. TrailInv(j)
        BY DEF ForceInv
      <3>2. CASE j # k
        BY <2>2, <2>4, NamesAssumption, <3>1, <3>2 DEF TrailInv, Its, Up, Early, Late
      <3>3. CASE j = k
        BY <2>2, <2>4, <2>5, NamesAssumption, <3>1, <3>3 DEF TrailInv, Its, Up, Early, Late
      <3> QED
        BY <3>2, <3>3
    <2>13. ASSUME NEW j \in Command PROVE EvidenceInv(j)'
      <3>1. EvidenceInv(j)
        BY DEF ForceInv
      <3>2. CASE j # k
        <4>1. waiter'[j] = waiter[j] /\ Its(j)' = Its(j)
          BY <2>4, <3>2 DEF Its
        <4>2. \A i \in Command : waiter[j].at = "restart" /\ Placed(i, Its(j))' => Placed(i, Its(j))
          BY <2>3, <4>1, NamesAssumption DEF ForceInv, PhaseInv, Placed, Its
        <4> QED
          BY <2>2, <3>1, <4>1, <4>2 DEF EvidenceInv
      <3>3. CASE j = k
        BY <2>4, <3>3 DEF EvidenceInv
      <3> QED
        BY <3>2, <3>3
    <2>14. ASSUME NEW j \in Command PROVE OutcomeInv(j)'
      BY <2>2, <2>3, <2>4, <2>5 DEF ForceInv, OutcomeInv, Alive, RunsOn, MayRunOn, Up, Its,
         Ending
    <2> QED
      BY <2>6, <2>7, <2>8, <2>9, <2>10, <2>11, <2>12, <2>13, <2>14 DEF ForceInv
  <1>2. ASSUME task[k].on # NoWorker PROVE ForceInv'
    <2>0. PICK w \in Worker : task[k].on = w
      BY <1>2 DEF ForceInv, Types, TaskState, Place
    <2>1. Types
      BY DEF ForceInv
    <2>2. /\ waiter[k].at = "prepare" /\ ~loss[k].unknown /\ loss[k].pending = NoWorker
          /\ task[k].at # "over" /\ Placed(k, w) /\ Its(k) = w
          /\ seat[w].fence \in {NoCommand, k}
          /\ task' = [task EXCEPT ![k] = [at |-> "gone", on |-> NoWorker]]
          /\ seat' = [seat EXCEPT ![w] = [seat[w] EXCEPT !.fence = k, !.status = "paused"]]
          /\ UNCHANGED <<hold, loss, body, told>>
      BY <1>2, <2>0, NamesAssumption DEF PrepareLost, Ready, Refused, Moved, Withdraw, Task, Seat, Placed, In
    <2>3. /\ task' \in [Command -> TaskState] /\ \A j \in Command : j # k => task'[j] = task[j]
          /\ task'[k].at = "gone" /\ task'[k].on = NoWorker
      BY <2>1, <2>2 DEF Types, TaskState, Place
    <2>4. /\ seat' \in [Worker -> SeatState] /\ \A v \in Worker : v # w => seat'[v] = seat[v]
          /\ seat'[w].here = seat[w].here
          /\ seat'[w].status = "paused"
          /\ seat'[w].fence = k
          /\ seat'[w].restart = seat[w].restart
      BY <2>1, <2>2 DEF Types, SeatState, Key
    <2>5. /\ waiter' \in [Command -> WaiterState] /\ \A j \in Command : j # k => waiter'[j] = waiter[j]
          /\ waiter'[k].at = "unhold"
          /\ waiter'[k].worker = waiter[k].worker
          /\ ~waiter'[k].entered
          /\ waiter'[k].evidence = {}
          /\ waiter'[k].restarted = waiter[k].restarted
          /\ waiter'[k].lost = waiter[k].lost
          /\ waiter'[k].outcome = "failed"
      BY <2>1, Settling DEF PrepareLost
    <2>6. /\ ~waiter[k].restarted /\ waiter[k].outcome = "none"
          /\ \A v \in Worker : Alive(k, v) => v = w
          /\ seat[w].restart = NoCommand /\ seat[w].here
      BY <2>2, NamesAssumption DEF ForceInv, PhaseInv, TaskInv, SeatInv, Placed, Early
    <2>7. Types'
      BY <2>1, <2>2, <2>3, <2>4, <2>5, <2>6 DEF Types
    <2>8. ASSUME NEW v \in Worker PROVE BodyInv(v)'
      BY <2>2, <2>3, <2>4, <2>5, <2>6 DEF ForceInv, BodyInv, Alive, RunsOn, MayRunOn, Placed,
         Up, Its
    <2>9. ASSUME NEW v \in Worker PROVE SeatInv(v)'
      <3>1. SeatInv(v) /\ seat[v] \in SeatState
        BY DEF ForceInv, Types
      <3>2. seat[v].restart # k /\ seat'[v].restart = seat[v].restart /\ seat'[v].here = seat[v].here
        BY <2>2, <2>4, <2>6, <3>1, NamesAssumption DEF SeatInv
      <3>3. seat[v].restart # NoCommand => seat'[v] = seat[v]
        BY <2>2, <2>4, <2>6
      <3>4. CASE seat[v].restart \in Command \ {k}
        BY <2>2, <2>5, <3>1, <3>2, <3>3, <3>4, NamesAssumption DEF SeatInv, Its, Up
      <3>5. CASE seat[v].restart = NoCommand
        BY <2>2, <2>4, <2>6, <3>1, <3>2, <3>5 DEF SeatInv, Up
      <3> QED
        BY <3>1, <3>2, <3>4, <3>5 DEF SeatState, Key
    <2>10. ASSUME NEW j \in Command PROVE TaskInv(j)'
      BY <2>2, <2>3, <2>4, <2>5, <2>6 DEF ForceInv, TaskInv, On, Alive, RunsOn, MayRunOn,
         Placed, Up, Its
    <2>11. ASSUME NEW j \in Command PROVE PhaseInv(j)'
      <3>1. PhaseInv(j) /\ NoWorker \notin Worker
        BY NamesAssumption DEF ForceInv
      <3>2. \A v \in Worker : Alive(j, v)' <=> Alive(j, v)
        BY <2>2 DEF Alive, RunsOn, MayRunOn, Up
      <3>3. CASE j # k
        BY <2>2, <2>5, <2>3, <3>1, <3>2, <3>3 DEF PhaseInv, Its
      <3>4. CASE j = k
        BY <2>2, <2>5, <2>6, <2>3, <3>1, <3>2, <3>4 DEF PhaseInv, Its, Early, Late
      <3> QED
        BY <3>3, <3>4
    <2>12. ASSUME NEW j \in Command PROVE GripInv(j)'
      BY <2>2, <2>3, <2>4, <2>5, <2>6 DEF ForceInv, GripInv, Alive, RunsOn, MayRunOn, Placed,
         Up, Its
    <2>13. ASSUME NEW j \in Command PROVE TrailInv(j)'
      <3>1. TrailInv(j)
        BY DEF ForceInv
      <3>2. CASE j # k
        BY <2>2, <2>5, <2>4, NamesAssumption, <3>1, <3>2 DEF TrailInv, Its, Up, Early, Late
      <3>3. CASE j = k
        BY <2>2, <2>5, <2>6, <2>4, NamesAssumption, <3>1, <3>3 DEF TrailInv, Its, Up, Early, Late
      <3> QED
        BY <3>2, <3>3
    <2>14. ASSUME NEW j \in Command PROVE EvidenceInv(j)'
      <3>1. EvidenceInv(j)
        BY DEF ForceInv
      <3>2. CASE j # k
        <4>1. waiter'[j] = waiter[j] /\ Its(j)' = Its(j)
          BY <2>5, <3>2 DEF Its
        <4>2. \A i \in Command : waiter[j].at = "restart" /\ Placed(i, Its(j))' => Placed(i, Its(j))
          BY <2>3, <4>1, NamesAssumption DEF ForceInv, PhaseInv, Placed, Its
        <4> QED
          BY <2>2, <2>4, <3>1, <4>1, <4>2 DEF EvidenceInv
      <3>3. CASE j = k
        BY <2>5, <3>3 DEF EvidenceInv
      <3> QED
        BY <3>2, <3>3
    <2>15. ASSUME NEW j \in Command PROVE OutcomeInv(j)'
      BY <2>2, <2>3, <2>4, <2>5, <2>6 DEF ForceInv, OutcomeInv, Alive, RunsOn, MayRunOn,
         Placed, Up, Its, Ending
    <2> QED
      BY <2>7, <2>8, <2>9, <2>10, <2>11, <2>12, <2>13, <2>14, <2>15 DEF ForceInv
  <1> QED
    BY <1>1, <1>2

-----------------------------------------------------------------------------
(* Every step.                                                             *)

LEMMA StutterKeeps == ASSUME ForceInv, UNCHANGED ivars PROVE ForceInv'
  <1>1. UNCHANGED <<task, hold, loss, seat, body, told, waiter>>
    BY DEF ivars, pool
  <1>2. Types'
    BY <1>1 DEF ForceInv, Types
  <1>3. \A w \in Worker : (BodyInv(w) /\ SeatInv(w))'
    BY <1>1 DEF ForceInv, BodyInv, SeatInv, Up, Its
  <1>4. \A k \in Command : (TaskInv(k) /\ PhaseInv(k) /\ GripInv(k))'
    BY <1>1 DEF ForceInv, TaskInv, PhaseInv, GripInv, On, Alive, RunsOn, MayRunOn, Placed, Up, Its
  <1>5. \A k \in Command : (TrailInv(k) /\ EvidenceInv(k) /\ OutcomeInv(k))'
    BY <1>1 DEF ForceInv, TrailInv, EvidenceInv, OutcomeInv, Alive, RunsOn, MayRunOn, Placed, Up, Its
  <1> QED
    BY <1>2, <1>3, <1>4, <1>5 DEF ForceInv

LEMMA PoolKeeps == ASSUME ForceInv, Pool PROVE ForceInv'
  <1>1. CASE \E k \in Command : Register(k)
    BY <1>1, RegisterKeeps
  <1>2. ASSUME NEW w \in Worker, Join(w) \/ Finish(w) \/ HearStatus(w) \/ Die(w) \/ Remove(w)
        PROVE  ForceInv'
    BY <1>2, JoinKeeps, FinishKeeps, HearStatusKeeps, DieKeeps, RemoveKeeps
  <1>3. ASSUME NEW k \in Command, NEW w \in Worker,
               Assign(k, w) \/ Receive(k, w) \/ Enter(k, w) \/ Report(k, w) \/ Forget(k, w)
        PROVE  ForceInv'
    BY <1>3, AssignKeeps, ReceiveKeeps, EnterKeeps, ReportKeeps, ForgetKeeps
  <1> QED
    BY <1>1, <1>2, <1>3 DEF Pool

LEMMA InterruptsKeep == ASSUME ForceInv, NEW k \in Command, Interrupts(k) PROVE ForceInv'
  <1>1. CASE Locate(k) \/ LocatePending(k) \/ Pause(k) \/ PauseRefused(k) \/ PauseLost(k) \/ Relocate(k)
    BY <1>1, LocateKeeps, LocatePendingKeeps, PauseKeeps, PauseRefusedKeeps, PauseLostKeeps, RelocateKeeps
  <1>2. CASE PrepareRefused(k) \/ Prepare(k) \/ PrepareLost(k) \/ Acknowledge(k) \/ WorkerReleased(k)
    BY <1>2, PrepareRefusedKeeps, PrepareKeeps, PrepareLostKeeps, AcknowledgeKeeps, WorkerReleasedKeeps
  <1>3. CASE BeginRestart(k) \/ Kill(k) \/ Certify(k) \/ Fails(k)
    BY <1>3, BeginRestartKeeps, KillKeeps, CertifyKeeps, FailsKeeps
  <1> QED
    BY <1>1, <1>2, <1>3 DEF Interrupts

LEMMA CleansKeep == ASSUME ForceInv, NEW k \in Command, Cleans(k) PROVE ForceInv'
  BY ReleaseHoldKeeps, ResumeWorkerKeeps, UngateKeeps, CleanupFailsKeeps, DropKeeps DEF Cleans

\* The inductive invariant: who holds a worker, what a waiter has left in the
\* pool and where a withdrawn command may still be alive, at every step of any
\* number of interruptions.
THEOREM ForceInductive == ISpec => []ForceInv
  <1>1. ForceInv /\ [INext]_ivars => ForceInv'
    <2> SUFFICES ASSUME ForceInv, [INext]_ivars PROVE ForceInv'
      OBVIOUS
    <2>1. CASE UNCHANGED ivars
      BY <2>1, StutterKeeps
    <2>2. CASE Pool
      BY <2>2, PoolKeeps
    <2>3. ASSUME NEW k \in Command, Request(k) \/ Interrupts(k) \/ Cleans(k) PROVE ForceInv'
      BY <2>3, RequestKeeps, InterruptsKeep, CleansKeep
    <2> QED
      BY <2>1, <2>2, <2>3 DEF INext
  <1> QED
    BY ForceStarts, <1>1, PTL DEF ISpec

-----------------------------------------------------------------------------
(* What follows.                                                           *)

\* Every variable keeps its type.
THEOREM ForceTyped == ISpec => []ITypeOK
  <1>1. ForceInv => ITypeOK
    BY DEF ForceInv, Types, ITypeOK, TaskState, LossState, SeatState, BodyState, WaiterState, Early, Late, Ending
  <1> QED
    BY <1>1, ForceInductive, PTL

\* A command whose forced stop was reported as confirmed runs on no worker and
\* waits on none, however the messages of _interrupt_command were delayed.
THEOREM ConfirmationsHold == ISpec => []ConfirmedIsStopped
  <1>1. ForceInv => ConfirmedIsStopped
    BY DEF ForceInv, OutcomeInv, ConfirmedIsStopped, Alive
  <1> QED
    BY <1>1, ForceInductive, PTL

\* A command is entered on two workers only after a loss on record or its withdrawal.
THEOREM CopiesRecorded == ISpec => []CopiesAreOnRecord
  <1>1. ForceInv => CopiesAreOnRecord
    BY NamesAssumption DEF ForceInv, TaskInv, CopiesAreOnRecord, Alive, Placed
  <1> QED
    BY <1>1, ForceInductive, PTL

\* A finished interruption has taken its fence, its gate and its hold away,
\* unless a cleanup call was lost or the worker was restarted.
THEOREM FencesComeDown == ISpec => []NothingStaysFenced
  <1>1. ForceInv => NothingStaysFenced
    BY DEF ForceInv, TrailInv, NothingStaysFenced, In, Early, Late
  <1> QED
    BY <1>1, ForceInductive, PTL

\* The commands a confirmed restart displaced are all certified.
THEOREM DisplacedAreFreed == ISpec => []NobodyIsStranded
  <1>1. ForceInv => NobodyIsStranded
    BY DEF ForceInv, OutcomeInv, NobodyIsStranded
  <1> QED
    BY <1>1, ForceInductive, PTL

\* While a worker is being restarted for a command, no other command is inside
\* it, so its death takes no other with it.
THEOREM RestartsSpareOthers == ISpec => OnlyItsOwnDies
  <1>1. ForceInv => \A w \in Worker : Up(w) /\ body'[w].life = "dead" /\ seat[w].restart # NoCommand =>
                                          body[w].inside \in {seat[w].restart, NoCommand}
    BY DEF ForceInv, SeatInv
  <1> QED
    BY <1>1, ForceInductive, PTL DEF OnlyItsOwnDies
=============================================================================
