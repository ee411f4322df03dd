-------------------------- MODULE PlaybackEngineProofs --------------------------
(* Proofs about the decode worker: what its helpers do to the record w, and   *)
(* that one answer is given to each load, a scheduled recovery stays           *)
(* scheduled, nothing is left open and a stored intent is kept.                *)
EXTENDS PlaybackEngine, TLAPS

-----------------------------------------------------------------------------
(* What a helper keeps. *)

SameMedia(x, y) == y.media = x.media /\ y.cont = x.cont /\ y.fixed = x.fixed

SameLoad(x, y) == y.loading = x.loading /\ y.outcome = x.outcome

(* The open load, if there is one, is given its outcome. *)
Concluded(x, y) ==
    /\ y.loading = 0
    /\ y.outcome = IF x.loading = 0 THEN x.outcome
                   ELSE [x.outcome EXCEPT ![x.loading] = @ + 1]

SameIntent(x, y) == y.pending = x.pending /\ y.attempt = x.attempt

SameFetch(x, y) == y.source = x.source /\ y.retired = x.retired /\ y.aim = x.aim

LEMMA RetireIs ==
    \A x \in WorkerRecord :
        LET y == Retire(x)
        IN /\ y \in WorkerRecord /\ SameMedia(x, y) /\ SameLoad(x, y) /\ SameIntent(x, y)
           /\ y.retired = TRUE /\ y.aim = FALSE /\ y.source = x.source
           /\ y.state = x.state /\ y.transport = x.transport /\ y.outage = x.outage
BY ZenonT(60) DEF Retire, WorkerRecord, SameMedia, SameLoad, SameIntent

LEMMA BeginIs ==
    \A x \in WorkerRecord :
        LET y == Begin(x)
        IN /\ y \in WorkerRecord /\ SameMedia(x, y) /\ SameLoad(x, y) /\ SameIntent(x, y)
           /\ y.retired = FALSE /\ y.aim = FALSE /\ y.source = x.source
           /\ y.state = x.state /\ y.transport = x.transport /\ y.outage = x.outage
BY ZenonT(60) DEF Begin, WorkerRecord, SameMedia, SameLoad, SameIntent

LEMMA TeardownIs ==
    \A x \in WorkerRecord :
        LET y == Teardown(x)
        IN /\ y \in WorkerRecord /\ SameMedia(x, y) /\ SameLoad(x, y) /\ SameIntent(x, y)
           /\ SameFetch(x, y)
           /\ y.state = x.state /\ y.transport = "none" /\ y.outage = x.outage
<1> SUFFICES ASSUME NEW x \in WorkerRecord
             PROVE  LET y == Teardown(x)
                    IN /\ y \in WorkerRecord
                       /\ SameMedia(x, y) /\ SameLoad(x, y) /\ SameIntent(x, y)
                       /\ SameFetch(x, y)
                       /\ y.state = x.state /\ y.transport = "none" /\ y.outage = x.outage
  OBVIOUS
<1>1. Teardown(x) \in WorkerRecord
  BY DEF Teardown, WorkerRecord
<1>2. Teardown(x).transport = "none" /\ Teardown(x).state = x.state
      /\ Teardown(x).outage = x.outage
  BY DEF Teardown, WorkerRecord
<1>3. SameMedia(x, Teardown(x)) /\ SameLoad(x, Teardown(x))
  BY DEF Teardown, WorkerRecord, SameMedia, SameLoad
<1>4. SameIntent(x, Teardown(x)) /\ SameFetch(x, Teardown(x))
  BY DEF Teardown, WorkerRecord, SameIntent, SameFetch
<1> QED BY <1>1, <1>2, <1>3, <1>4

LEMMA SetStateIs ==
    \A x \in WorkerRecord, s \in States :
        LET y == SetState(x, s)
        IN /\ y \in WorkerRecord /\ SameMedia(x, y) /\ SameLoad(x, y) /\ SameIntent(x, y)
           /\ SameFetch(x, y)
           /\ y.state = s /\ y.transport = x.transport /\ y.outage = x.outage
<1> SUFFICES ASSUME NEW x \in WorkerRecord, NEW s \in States
             PROVE  LET y == SetState(x, s)
                    IN /\ y \in WorkerRecord
                       /\ SameMedia(x, y) /\ SameLoad(x, y) /\ SameIntent(x, y)
                       /\ SameFetch(x, y)
                       /\ y.state = s /\ y.transport = x.transport /\ y.outage = x.outage
  OBVIOUS
<1>1. SetState(x, s) \in WorkerRecord
  <2>1. [x EXCEPT !.state = s] \in WorkerRecord
    BY DEF WorkerRecord
  <2>2. [[x EXCEPT !.state = s] EXCEPT !.shown = s] \in WorkerRecord
    BY <2>1 DEF WorkerRecord
  <2>3. [x EXCEPT !.state = s, !.shown = s] = [[x EXCEPT !.state = s] EXCEPT !.shown = s]
    OBVIOUS
  <2> QED BY <2>2, <2>3 DEF SetState
<1>2. SetState(x, s).transport = x.transport /\ SetState(x, s).state = s
      /\ SetState(x, s).outage = x.outage
  BY DEF SetState, WorkerRecord
<1>3. SameMedia(x, SetState(x, s)) /\ SameLoad(x, SetState(x, s))
  BY DEF SetState, WorkerRecord, SameMedia, SameLoad
<1>4. SameIntent(x, SetState(x, s)) /\ SameFetch(x, SetState(x, s))
  BY DEF SetState, WorkerRecord, SameIntent, SameFetch
<1> QED BY <1>1, <1>2, <1>3, <1>4

LEMMA CaptureIs ==
    ASSUME NEW x \in WorkerRecord
    PROVE  LET y == CapturePosition(x)
           IN /\ y \in WorkerRecord
              /\ SameMedia(x, y) /\ SameLoad(x, y) /\ SameIntent(x, y)
              /\ SameFetch(x, y)
              /\ y.state = x.state /\ y.outage = x.outage
              /\ y.transport = "none" <=> x.transport = "none"
<1>1. CASE x.transport = "none"
  BY <1>1 DEF CapturePosition, SameMedia, SameLoad, SameIntent, SameFetch
<1>2. CASE x.transport # "none"
  <2>1. CapturePosition(x) = [x EXCEPT !.transport = "parked"]
    BY <1>2 DEF CapturePosition
  <2> QED BY <2>1, <1>2 DEF WorkerRecord, SameMedia, SameLoad, SameIntent, SameFetch
<1> QED BY <1>1, <1>2

LEMMA StartRunningIs ==
    ASSUME NEW x \in WorkerRecord
    PROVE  LET y == StartRunning(x)
           IN /\ y \in WorkerRecord
              /\ SameMedia(x, y) /\ SameLoad(x, y) /\ SameIntent(x, y)
              /\ SameFetch(x, y)
              /\ y.state = x.state /\ y.outage = x.outage
              /\ y.transport = "none" <=> x.transport = "none"
<1>1. CASE x.transport = "none"
  BY <1>1 DEF StartRunning, SameMedia, SameLoad, SameIntent, SameFetch
<1>2. CASE x.transport # "none"
  <2>1. StartRunning(x) = [x EXCEPT !.transport = "running"]
    BY <1>2 DEF StartRunning
  <2> QED BY <2>1, <1>2 DEF WorkerRecord, SameMedia, SameLoad, SameIntent, SameFetch
<1> QED BY <1>1, <1>2

LEMMA CloseSourceIs ==
    ASSUME NEW x \in WorkerRecord
    PROVE  LET y == CloseSource(x)
           IN /\ y \in WorkerRecord
              /\ SameMedia(x, y) /\ SameLoad(x, y) /\ SameIntent(x, y)
              /\ y.source = "none" /\ y.state = x.state
              /\ y.transport = x.transport /\ y.outage = x.outage
              /\ y.retired = (x.retired \/ (Remote(x) /\ x.source # "none"))
              /\ y.aim = (x.aim /\ ~(Remote(x) /\ x.source # "none"))
<1> DEFINE c == [x EXCEPT !.source = "none"]
<1>1. /\ c \in WorkerRecord /\ SameMedia(x, c) /\ SameLoad(x, c) /\ SameIntent(x, c)
      /\ c.source = "none" /\ c.retired = x.retired /\ c.aim = x.aim
      /\ c.state = x.state /\ c.transport = x.transport /\ c.outage = x.outage
  BY DEF WorkerRecord, SameMedia, SameLoad, SameIntent
<1>2. x.retired \in BOOLEAN /\ x.aim \in BOOLEAN
  BY DEF WorkerRecord
<1>3. CloseSource(x) = IF Remote(x) /\ x.source # "none" THEN Retire(c) ELSE c
  BY DEF CloseSource
<1> HIDE DEF c
<1>4. CASE Remote(x) /\ x.source # "none"
  <2>1. CloseSource(x) = Retire(c)
    BY <1>3, <1>4
  <2>2. /\ Retire(c) \in WorkerRecord
        /\ SameMedia(c, Retire(c)) /\ SameLoad(c, Retire(c)) /\ SameIntent(c, Retire(c))
        /\ Retire(c).retired = TRUE /\ Retire(c).aim = FALSE
        /\ Retire(c).source = c.source /\ Retire(c).state = c.state
        /\ Retire(c).transport = c.transport /\ Retire(c).outage = c.outage
    BY <1>1, RetireIs
  <2>3. /\ (x.retired \/ (Remote(x) /\ x.source # "none")) = TRUE
        /\ (x.aim /\ ~(Remote(x) /\ x.source # "none")) = FALSE
    BY <1>4
  <2>4. /\ SameMedia(x, Retire(c)) /\ SameLoad(x, Retire(c)) /\ SameIntent(x, Retire(c))
    BY <1>1, <2>2 DEF SameMedia, SameLoad, SameIntent
  <2> QED BY <1>1, <2>1, <2>2, <2>3, <2>4
<1>5. CASE ~(Remote(x) /\ x.source # "none")
  BY <1>1, <1>2, <1>3, <1>5
<1> QED BY <1>4, <1>5

LEMMA RetireRemoteIs ==
    ASSUME NEW x \in WorkerRecord
    PROVE  LET y == RetireRemoteSource(x)
           IN /\ y \in WorkerRecord
              /\ SameMedia(x, y) /\ SameLoad(x, y) /\ SameIntent(x, y)
              /\ y.source = IF Remote(x) THEN "none" ELSE x.source
              /\ y.state = x.state /\ y.transport = x.transport /\ y.outage = x.outage
              /\ y.retired = (x.retired \/ (Remote(x) /\ x.source # "none"))
              /\ y.aim = (x.aim /\ ~(Remote(x) /\ x.source # "none"))
<1>1. x.retired \in BOOLEAN /\ x.aim \in BOOLEAN
  BY DEF WorkerRecord
<1>2. CASE Remote(x)
  <2>1. RetireRemoteSource(x) = CloseSource(x)
    BY <1>2 DEF RetireRemoteSource
  <2> QED BY <2>1, <1>2, CloseSourceIs
<1>3. CASE ~Remote(x)
  <2>1. RetireRemoteSource(x) = x
    BY <1>3 DEF RetireRemoteSource
  <2> QED BY <2>1, <1>1, <1>3 DEF SameMedia, SameLoad, SameIntent
<1> QED BY <1>2, <1>3

LEMMA ConcludeIs ==
    ASSUME NEW x \in WorkerRecord
    PROVE  LET y == Conclude(x)
           IN /\ y \in WorkerRecord
              /\ SameMedia(x, y) /\ SameIntent(x, y) /\ SameFetch(x, y)
              /\ Concluded(x, y)
              /\ y.state = x.state /\ y.transport = x.transport /\ y.outage = x.outage
<1>1. CASE x.loading = 0
  BY <1>1 DEF Conclude, SameMedia, SameIntent, SameFetch, Concluded
<1>2. CASE x.loading # 0
  <2>1. MaxLoads \in Nat /\ x.loading \in 0 .. MaxLoads /\ x.outcome \in [Tokens -> Nat]
    BY EngineAssumption DEF WorkerRecord
  <2>2. x.loading \in Tokens
    BY <1>2, <2>1 DEF Tokens
  <2> DEFINE o == [x.outcome EXCEPT ![x.loading] = @ + 1]
  <2>3. o \in [Tokens -> Nat]
    BY <2>1, <2>2
  <2>4. Conclude(x) = [x EXCEPT !.outcome = o, !.loading = 0]
    BY <1>2 DEF Conclude
  <2>5. 0 \in 0 .. MaxLoads
    BY <2>1
  <2> HIDE DEF o
  <2>6. Conclude(x) \in WorkerRecord
    BY ZenonT(60), <2>3, <2>4, <2>5 DEF WorkerRecord
  <2>7. /\ SameMedia(x, Conclude(x)) /\ SameIntent(x, Conclude(x))
        /\ SameFetch(x, Conclude(x))
    BY <2>4 DEF WorkerRecord, SameMedia, SameIntent, SameFetch
  <2>8. /\ Conclude(x).loading = 0 /\ Conclude(x).outcome = o
        /\ Conclude(x).state = x.state /\ Conclude(x).transport = x.transport
        /\ Conclude(x).outage = x.outage
    BY <2>4 DEF WorkerRecord
  <2> QED BY <1>2, <2>6, <2>7, <2>8 DEF Concluded, o
<1> QED BY <1>1, <1>2

LEMMA AdoptStateIs ==
    \A x \in WorkerRecord, s \in States :
        LET y == AdoptState(x, s)
        IN /\ y \in WorkerRecord /\ SameMedia(x, y) /\ SameLoad(x, y) /\ SameIntent(x, y)
           /\ SameFetch(x, y)
           /\ y.state = s /\ y.transport = x.transport /\ y.outage = x.outage
BY DEF AdoptState, WorkerRecord, SameMedia, SameLoad, SameIntent, SameFetch

LEMMA AbandonIs ==
    ASSUME NEW x \in WorkerRecord
    PROVE  LET y == AbandonAttempt(x)
           IN /\ y \in WorkerRecord
              /\ SameMedia(x, y) /\ SameLoad(x, y) /\ SameIntent(x, y)
              /\ y.source = IF Remote(x) THEN "none" ELSE x.source
              /\ y.state = x.state /\ y.transport = "none" /\ y.outage = x.outage
              /\ y.retired = TRUE /\ y.aim = FALSE
<1> DEFINE b == Teardown(x)  c == Retire(b)  d == RetireRemoteSource(c)
<1>1. /\ b \in WorkerRecord /\ SameMedia(x, b) /\ SameLoad(x, b) /\ SameIntent(x, b)
      /\ b.source = x.source
      /\ b.state = x.state /\ b.transport = "none" /\ b.outage = x.outage
  BY TeardownIs DEF SameFetch
<1> HIDE DEF b
<1>2. /\ c \in WorkerRecord /\ SameMedia(b, c) /\ SameLoad(b, c) /\ SameIntent(b, c)
      /\ c.source = b.source /\ c.retired = TRUE /\ c.aim = FALSE
      /\ c.state = b.state /\ c.transport = b.transport /\ c.outage = b.outage
  BY <1>1, RetireIs
<1> HIDE DEF c
<1>3. /\ d \in WorkerRecord /\ SameMedia(c, d) /\ SameLoad(c, d) /\ SameIntent(c, d)
      /\ d.source = IF Remote(c) THEN "none" ELSE c.source
      /\ d.state = c.state /\ d.transport = c.transport /\ d.outage = c.outage
      /\ d.retired = TRUE /\ d.aim = FALSE
  BY <1>2, RetireRemoteIs
<1>4. AbandonAttempt(x) = d
  BY DEF AbandonAttempt, b, c, d
<1> HIDE DEF d
<1>5. Remote(c) = Remote(x)
  BY <1>1, <1>2 DEF SameMedia, Remote
<1>6. SameMedia(x, d) /\ SameLoad(x, d) /\ SameIntent(x, d)
  BY <1>1, <1>2, <1>3 DEF SameMedia, SameLoad, SameIntent
<1> QED BY <1>1, <1>2, <1>3, <1>4, <1>5, <1>6

(* A session that fails lets everything go and answers its load. *)
LEMMA FailIs ==
    ASSUME NEW x \in WorkerRecord
    PROVE  LET y == FailWith(x)
           IN /\ y \in WorkerRecord
              /\ SameMedia(x, y) /\ SameIntent(x, y)
              /\ y.state = "Failed"
              /\ x.state = "Failed" => y = x
              /\ x.state # "Failed" =>
                   /\ Concluded(x, y)
                   /\ y.source = IF Remote(x) THEN "none" ELSE x.source
                   /\ y.transport = "none" /\ y.outage = "none"
                   /\ y.retired = TRUE /\ y.aim = FALSE
<1>1. CASE x.state = "Failed"
  BY <1>1 DEF FailWith, SameMedia, SameIntent
<1>2. CASE x.state # "Failed"
  <2> DEFINE a == [x EXCEPT !.outage = "none"]  b == AbandonAttempt(a)
             c == Conclude(b)  d == SetState(c, "Failed")
  <2>1. /\ a \in WorkerRecord /\ SameMedia(x, a) /\ SameLoad(x, a) /\ SameIntent(x, a)
        /\ a.source = x.source /\ a.outage = "none"
    BY DEF WorkerRecord, SameMedia, SameLoad, SameIntent
  <2> HIDE DEF a
  <2>2. /\ b \in WorkerRecord /\ SameMedia(a, b) /\ SameLoad(a, b) /\ SameIntent(a, b)
        /\ b.source = IF Remote(a) THEN "none" ELSE a.source
        /\ b.transport = "none" /\ b.outage = a.outage /\ b.retired = TRUE /\ b.aim = FALSE
    BY <2>1, AbandonIs
  <2> HIDE DEF b
  <2>3. /\ c \in WorkerRecord /\ SameMedia(b, c) /\ SameIntent(b, c) /\ Concluded(b, c)
        /\ c.source = b.source /\ c.retired = TRUE /\ c.aim = FALSE
        /\ c.transport = "none" /\ c.outage = b.outage
    BY <2>2, ConcludeIs DEF SameFetch
  <2> HIDE DEF c
  <2>4. /\ d \in WorkerRecord /\ SameMedia(c, d) /\ SameIntent(c, d) /\ SameLoad(c, d)
        /\ d.source = c.source /\ d.retired = TRUE /\ d.aim = FALSE
        /\ d.transport = "none" /\ d.outage = c.outage /\ d.state = "Failed"
    BY <2>3, SetStateIs DEF SameFetch, States
  <2>5. FailWith(x) = d
    BY <1>2 DEF FailWith, AbandonAttempt, a, b, c, d
  <2> HIDE DEF d
  <2>6. Remote(a) = Remote(x)
    BY <2>1 DEF SameMedia, Remote
  <2>7. SameMedia(x, d) /\ SameIntent(x, d)
    BY <2>1, <2>2, <2>3, <2>4 DEF SameMedia, SameIntent
  <2>8. Concluded(x, d)
    BY <2>1, <2>2, <2>3, <2>4 DEF SameLoad, Concluded
  <2> QED BY <1>2, <2>1, <2>2, <2>3, <2>4, <2>5, <2>6, <2>7, <2>8
<1> QED BY <1>1, <1>2

LEMMA StopIs ==
    ASSUME NEW x \in WorkerRecord
    PROVE  LET y == DoStop(x)
           IN /\ y \in WorkerRecord
              /\ SameMedia(x, y) /\ SameLoad(x, y) /\ SameIntent(x, y)
              /\ x.state \in {"Idle", "Stopped", "Failed"} => y = x
              /\ x.state \notin {"Idle", "Stopped", "Failed"} =>
                   /\ y.state = "Stopped"
                   /\ y.source = IF Remote(x) THEN "none" ELSE x.source
                   /\ y.transport = "none" /\ y.outage = "none"
                   /\ y.retired = TRUE /\ y.aim = FALSE
<1>1. CASE x.state \in {"Idle", "Stopped", "Failed"}
  BY <1>1 DEF DoStop, SameMedia, SameLoad, SameIntent
<1>2. CASE x.state \notin {"Idle", "Stopped", "Failed"}
  <2> DEFINE a == [x EXCEPT !.outage = "none"]  b == AbandonAttempt(a)
             d == SetState(b, "Stopped")
  <2>1. /\ a \in WorkerRecord /\ SameMedia(x, a) /\ SameLoad(x, a) /\ SameIntent(x, a)
        /\ a.source = x.source /\ a.outage = "none"
    BY DEF WorkerRecord, SameMedia, SameLoad, SameIntent
  <2> HIDE DEF a
  <2>2. /\ b \in WorkerRecord /\ SameMedia(a, b) /\ SameLoad(a, b) /\ SameIntent(a, b)
        /\ b.source = IF Remote(a) THEN "none" ELSE a.source
        /\ b.transport = "none" /\ b.outage = a.outage /\ b.retired = TRUE /\ b.aim = FALSE
    BY <2>1, AbandonIs
  <2> HIDE DEF b
  <2>4. /\ d \in WorkerRecord /\ SameMedia(b, d) /\ SameIntent(b, d) /\ SameLoad(b, d)
        /\ d.source = b.source /\ d.retired = TRUE /\ d.aim = FALSE
        /\ d.transport = "none" /\ d.outage = b.outage /\ d.state = "Stopped"
    BY <2>2, SetStateIs DEF SameFetch, States
  <2>5. DoStop(x) = d
    BY <1>2 DEF DoStop, AbandonAttempt, a, b, d
  <2> HIDE DEF d
  <2>6. Remote(a) = Remote(x)
    BY <2>1 DEF SameMedia, Remote
  <2>7. SameMedia(x, d) /\ SameIntent(x, d) /\ SameLoad(x, d)
    BY <2>1, <2>2, <2>4 DEF SameMedia, SameIntent, SameLoad
  <2> QED BY <1>2, <2>1, <2>2, <2>4, <2>5, <2>6, <2>7
<1> QED BY <1>1, <1>2

LEMMA PauseClosingIs ==
    ASSUME NEW x \in WorkerRecord
    PROVE  LET y == PauseClosing(x)
           IN /\ y \in WorkerRecord
              /\ SameMedia(x, y) /\ SameLoad(x, y) /\ SameIntent(x, y)
              /\ ~Pausable(x) => y = x
              /\ Pausable(x) =>
                   /\ y.state = "Paused"
                   /\ y.source = IF Remote(x) THEN "none" ELSE x.source
                   /\ y.transport = "none" /\ y.outage = "none"
                   /\ y.retired = TRUE /\ y.aim = FALSE
<1>1. CASE ~Pausable(x)
  BY <1>1 DEF PauseClosing, SameMedia, SameLoad, SameIntent
<1>2. CASE Pausable(x)
  <2> DEFINE a == [x EXCEPT !.outage = "none", !.byHook = FALSE, !.frozen = FALSE]
             b == AbandonAttempt(a)
             d == IF x.byHook THEN AdoptState(b, "Paused") ELSE SetState(b, "Paused")
  <2>1. /\ a \in WorkerRecord /\ SameMedia(x, a) /\ SameLoad(x, a) /\ SameIntent(x, a)
        /\ a.source = x.source /\ a.outage = "none"
    <3>1. a \in WorkerRecord
      BY ZenonT(60) DEF WorkerRecord
    <3>2. SameMedia(x, a) /\ SameLoad(x, a) /\ SameIntent(x, a)
      BY DEF WorkerRecord, SameMedia, SameLoad, SameIntent
    <3> QED BY <3>1, <3>2 DEF WorkerRecord
  <2> HIDE DEF a
  <2>2. /\ b \in WorkerRecord /\ SameMedia(a, b) /\ SameLoad(a, b) /\ SameIntent(a, b)
        /\ b.source = IF Remote(a) THEN "none" ELSE a.source
        /\ b.transport = "none" /\ b.outage = a.outage /\ b.retired = TRUE /\ b.aim = FALSE
    BY <2>1, AbandonIs
  <2> HIDE DEF b
  <2>3. /\ AdoptState(b, "Paused") \in WorkerRecord
        /\ SameMedia(b, AdoptState(b, "Paused")) /\ SameIntent(b, AdoptState(b, "Paused"))
        /\ SameLoad(b, AdoptState(b, "Paused")) /\ SameFetch(b, AdoptState(b, "Paused"))
        /\ AdoptState(b, "Paused").transport = b.transport
        /\ AdoptState(b, "Paused").outage = b.outage
        /\ AdoptState(b, "Paused").state = "Paused"
    BY <2>2, AdoptStateIs DEF States
  <2>4. /\ d \in WorkerRecord /\ SameMedia(b, d) /\ SameIntent(b, d) /\ SameLoad(b, d)
        /\ d.source = b.source /\ d.retired = TRUE /\ d.aim = FALSE
        /\ d.transport = "none" /\ d.outage = b.outage /\ d.state = "Paused"
    <3>1. CASE x.byHook
      BY <3>1, <2>2, <2>3 DEF SameFetch
    <3>2. CASE ~x.byHook
      BY <3>2, <2>2, SetStateIs DEF SameFetch, States
    <3> QED BY <3>1, <3>2
  <2>5. PauseClosing(x) = d
    BY <1>2 DEF PauseClosing, AbandonAttempt, a, b, d
  <2> HIDE DEF d
  <2>6. Remote(a) = Remote(x)
    BY <2>1 DEF SameMedia, Remote
  <2>7. SameMedia(x, d) /\ SameIntent(x, d) /\ SameLoad(x, d)
    BY <2>1, <2>2, <2>4 DEF SameMedia, SameIntent, SameLoad
  <2> QED BY <1>2, <2>1, <2>2, <2>4, <2>5, <2>6, <2>7
<1> QED BY <1>1, <1>2

(* The connection is let go, and the next attempt is scheduled; or the budget *)
(* of a standing outage is spent.                                             *)
LEMMA EnterReconnectingIs ==
    ASSUME NEW x \in WorkerRecord, NEW y \in EnterReconnecting(x)
    PROVE  \/ y = FailWith(x)
           \/ /\ y \in WorkerRecord
              /\ SameMedia(x, y) /\ SameLoad(x, y) /\ SameIntent(x, y)
              /\ y.source = IF Remote(x) THEN "none" ELSE x.source
              /\ y.state = "Reconnecting" /\ y.transport = x.transport
              /\ y.outage = "waiting" /\ y.retired = TRUE /\ y.aim = FALSE
<1> DEFINE a == [x EXCEPT !.outage = "waiting"]  b == Retire(a)
           c == RetireRemoteSource(b)  d == SetState(c, "Reconnecting")
<1>1. /\ a \in WorkerRecord /\ SameMedia(x, a) /\ SameLoad(x, a) /\ SameIntent(x, a)
      /\ a.source = x.source /\ a.outage = "waiting" /\ a.transport = x.transport
  BY DEF WorkerRecord, SameMedia, SameLoad, SameIntent
<1> HIDE DEF a
<1>2. /\ b \in WorkerRecord /\ SameMedia(a, b) /\ SameLoad(a, b) /\ SameIntent(a, b)
      /\ b.source = a.source
      /\ b.transport = a.transport /\ b.outage = a.outage /\ b.retired = TRUE /\ b.aim = FALSE
  BY <1>1, RetireIs
<1> HIDE DEF b
<1>3. /\ c \in WorkerRecord /\ SameMedia(b, c) /\ SameLoad(b, c) /\ SameIntent(b, c)
      /\ c.source = IF Remote(b) THEN "none" ELSE b.source
      /\ c.transport = b.transport /\ c.outage = b.outage /\ c.retired = TRUE /\ c.aim = FALSE
  BY <1>2, RetireRemoteIs
<1> HIDE DEF c
<1>4. /\ d \in WorkerRecord /\ SameMedia(c, d) /\ SameIntent(c, d) /\ SameLoad(c, d)
      /\ d.source = c.source /\ d.retired = TRUE /\ d.aim = FALSE
      /\ d.transport = c.transport /\ d.outage = c.outage /\ d.state = "Reconnecting"
  BY <1>3, SetStateIs DEF SameFetch, States
<1>5. y = d \/ y = FailWith(x)
  BY DEF EnterReconnecting, a, b, c, d
<1> HIDE DEF d
<1>6. Remote(b) = Remote(x)
  BY <1>1, <1>2 DEF SameMedia, Remote
<1>7. SameMedia(x, d) /\ SameIntent(x, d) /\ SameLoad(x, d)
  BY <1>1, <1>2, <1>3, <1>4 DEF SameMedia, SameIntent, SameLoad
<1> QED BY <1>1, <1>2, <1>3, <1>4, <1>5, <1>6, <1>7

-----------------------------------------------------------------------------
(* The invariant.  Where the worker stands decides what its record may look   *)
(* like: what is open (SourceOK), whether an attempt is in progress and has   *)
(* a device (AttemptOK), which states can be (StateOK) and whether a load is  *)
(* still to be answered (LoadOK).                                             *)

Attempts == {"restore", "rejoin", "retry", "recover"}
Closed == {"Idle", "Stopped", "Failed"}
LoopPlaces == {"top", "fault", "admit", "reconnect", "pump", "end", "confirm", "read"}
Opens == {"load", "restore", "rejoin", "retry", "recover", "seek", "restart"}
Lands == {"load", "restore", "recover", "seek", "undo", "reject", "trial", "restart",
          "rebuild", "pausing"}

PlaceOK(j, a, m) ==
    /\ m \in BOOLEAN
    /\ \/ j = "loop" /\ a \in LoopPlaces /\ ~m
       \/ j = "gone" /\ a = "gone" /\ ~m
       \/ j \in Opens \union Lands /\ a \in {"open", "land", "seek", "device", "prime", "done"}
    /\ a = "open" => j \in Opens /\ ~m
    /\ a \in {"land", "seek"} => j \in Lands
    /\ j = "trial" => a \in {"land", "seek"}
    /\ m => j \notin {"load", "rejoin", "retry", "trial"}
    /\ j \in {"rebuild", "pausing"} => m

SourceOK(j, a, x) ==
    /\ a \in {"open", "gone"} => x.source = "none"
    /\ a \in {"land", "seek", "device", "prime", "read"} => x.source # "none"
    /\ x.source # "none" \/ x.transport # "none" =>
         x.cont = Probed(x) /\ x.fixed = (x.media \in {"fixed", "station"})
    /\ Indefinite(x) => x.fixed
    /\ a \notin {"open", "gone"} => (Remote(x) /\ x.source = "none" => x.retired)
    /\ a = "done" => x.source # "none" \/ Remote(x)

AttemptOK(j, a, m, x) ==
    /\ x.attempt # "no" <=> j \in Attempts /\ (a \in {"device", "prime", "done"} \/ m)
    /\ j \in Attempts /\ a \in {"prime", "done"} => x.transport # "none"
    /\ m /\ a \in {"land", "seek", "device"} => x.transport = "none"
    /\ j \in {"rejoin", "retry"} /\ a = "device" => x.transport = "none"
    /\ j = "load" /\ a \in {"open", "land", "seek", "device"} => x.transport = "none"

StateOK(j, a, x) ==
    /\ x.state \in Closed /\ x.transport # "none" /\ x.media # "fixed" =>
         a \in {"prime", "done"} /\ j \in {"restart", "restore", "rejoin"}
    /\ j \in {"seek", "undo", "reject", "rebuild", "pausing", "load"}
         /\ a \in {"land", "seek", "device", "prime"} /\ x.media # "fixed"
         => x.state \notin Closed
    /\ j = "seek" /\ a = "open" => x.state # "Failed"
    /\ j \in {"retry", "recover"} => x.state = "Reconnecting"
    /\ x.state = "Reconnecting" =>
         /\ x.outage = "waiting" /\ Remote(x)
         /\ x.source = "none" \/ j \in {"retry", "recover"}
         /\ j \in {"loop", "retry", "recover"} \/ a = "done"
    /\ a \in {"read", "confirm"} => x.state = "Playing" /\ x.transport # "none"

LoadOK(j, a, x) ==
    /\ x.loading # 0 <=> j = "load" /\ a \in {"open", "land", "seek"}
    /\ j = "load" /\ a # "done" => x.state = "Loading"

Stands(j, a, m, x) ==
    /\ PlaceOK(j, a, m) /\ SourceOK(j, a, x) /\ AttemptOK(j, a, m, x)
    /\ StateOK(j, a, x) /\ LoadOK(j, a, x)

(* A load is queued once, and only while it waits for its outcome. *)
IsQueued(q, r) == \E i \in DOMAIN q : q[i].cmd = "Load" /\ q[i].token = r

AnswersOK(q, n, x) ==
    /\ \A i \in DOMAIN q : q[i].cmd = "Load" => q[i].token \in 1 .. n
    /\ \A i, k \in DOMAIN q :
         q[i].cmd = "Load" /\ q[k].cmd = "Load" /\ q[i].token = q[k].token => i = k
    /\ x.loading \in 0 .. n /\ ~(x.loading # 0 /\ IsQueued(q, x.loading))
    /\ \A r \in Tokens :
         x.outcome[r] = IF r > n \/ r = x.loading \/ IsQueued(q, r) THEN 0 ELSE 1

(* A remote open in progress is live, unless a submission has retired it that *)
(* is still to be taken; and what is aimed at it comes from such a one.       *)
OpenOK ==
    at = "open" =>
      /\ Remote(w) /\ w.retired =>
           \/ Interrupted \/ queue # <<>>
           \/ tail.phase = "act" /\ tail.cmd \in {"Stop", "Shutdown"}
      /\ Remote(w) /\ w.aim /\ tail.phase = "act" /\ tail.cmd \in Aimed => queue # <<>>

EngInv ==
    /\ TypeOK /\ Stands(job, at, mending, w) /\ AnswersOK(queue, loads, w) /\ OpenOK

(* What is between two handlers. *)
Rests(x) ==
    /\ x.source # "none" \/ x.transport # "none" =>
         x.cont = Probed(x) /\ x.fixed = (x.media \in {"fixed", "station"})
    /\ Indefinite(x) => x.fixed
    /\ Remote(x) /\ x.source = "none" => x.retired
    /\ x.attempt = "no" /\ x.loading = 0
    /\ ~(x.state \in Closed /\ x.transport # "none" /\ x.media # "fixed")
    /\ x.state = "Reconnecting" =>
         x.outage = "waiting" /\ Remote(x) /\ x.source = "none"

LEMMA RestsStands ==
    ASSUME NEW x \in WorkerRecord, Rests(x),
           NEW a \in {"top", "fault", "admit", "reconnect", "pump", "end"}
    PROVE  Stands("loop", a, FALSE, x)
<1>1. PlaceOK("loop", a, FALSE)
  BY DEF PlaceOK, LoopPlaces, Opens, Lands
<1>2. SourceOK("loop", a, x)
  BY DEF SourceOK, Rests
<1>3. AttemptOK("loop", a, FALSE, x)
  BY DEF AttemptOK, Rests, Attempts
<1>4. StateOK("loop", a, x)
  BY DEF StateOK, Rests
<1>5. LoadOK("loop", a, x)
  BY DEF LoadOK, Rests
<1> QED BY <1>1, <1>2, <1>3, <1>4, <1>5 DEF Stands

LEMMA StandsRests ==
    ASSUME NEW x \in WorkerRecord, NEW a, NEW m, Stands("loop", a, m, x)
    PROVE  Rests(x) /\ m = FALSE /\ a \in LoopPlaces
<1>1. m = FALSE /\ a \in LoopPlaces
  BY DEF Stands, PlaceOK, Opens, Lands
<1>2. /\ x.source # "none" \/ x.transport # "none" =>
           x.cont = Probed(x) /\ x.fixed = (x.media \in {"fixed", "station"})
      /\ Indefinite(x) => x.fixed
      /\ Remote(x) /\ x.source = "none" => x.retired
  BY <1>1 DEF Stands, SourceOK, LoopPlaces
<1>3. x.attempt = "no" /\ x.loading = 0
  BY <1>1 DEF Stands, AttemptOK, LoadOK, Attempts
<1>4. /\ ~(x.state \in Closed /\ x.transport # "none" /\ x.media # "fixed")
      /\ x.state = "Reconnecting" => x.outage = "waiting" /\ Remote(x) /\ x.source = "none"
  BY <1>1 DEF Stands, StateOK
<1> QED BY <1>1, <1>2, <1>3, <1>4 DEF Rests

LEMMA FinishRests ==
    ASSUME NEW x \in WorkerRecord, Rests(x), Finish(x)
    PROVE  Stands(job', at', mending', w') /\ w' = x /\ resume' = FALSE
<1>1. job' = "loop" /\ mending' = FALSE /\ w' = x /\ resume' = FALSE
      /\ at' \in {"admit", "pump", "reconnect"}
  BY DEF Finish, Stand
<1> QED BY <1>1, RestsStands

(* An outcome is given at most once in a step, to the load that is open. *)
LoadStep(x, y) == SameLoad(x, y) \/ Concluded(x, y)

LEMMA AnswersKept ==
    ASSUME NEW x \in WorkerRecord, NEW y \in WorkerRecord, NEW q, NEW n \in 0 .. MaxLoads,
           AnswersOK(q, n, x), LoadStep(x, y)
    PROVE  AnswersOK(q, n, y)
<1> MaxLoads \in Nat
  BY EngineAssumption
<1>1. CASE SameLoad(x, y) \/ x.loading = 0
  <2>1. y.loading = x.loading /\ y.outcome = x.outcome
    BY <1>1 DEF LoadStep, SameLoad, Concluded
  <2> QED BY <2>1 DEF AnswersOK
<1>2. CASE x.loading # 0 /\ Concluded(x, y)
  <2>1. /\ y.loading = 0 /\ x.loading \in Tokens /\ x.loading \in 1 .. n
        /\ y.outcome = [x.outcome EXCEPT ![x.loading] = @ + 1]
        /\ x.outcome \in [Tokens -> Nat]
    BY <1>2 DEF Concluded, AnswersOK, Tokens, WorkerRecord
  <2>2. ASSUME NEW r \in Tokens
        PROVE  y.outcome[r] = IF r > n \/ r = y.loading \/ IsQueued(q, r) THEN 0 ELSE 1
    <3>1. CASE r = x.loading
      BY <1>2, <2>1, <3>1 DEF AnswersOK, Tokens
    <3>2. CASE r # x.loading
      BY <1>2, <2>1, <3>2 DEF AnswersOK, Tokens
    <3> QED BY <3>1, <3>2
  <2> QED BY <2>1, <2>2 DEF AnswersOK
<1> QED BY <1>1, <1>2 DEF LoadStep

-----------------------------------------------------------------------------
(* Between two handlers. *)

LEMMA FailRests ==
    ASSUME NEW x \in WorkerRecord, x.attempt = "no",
           x.source # "none" \/ x.transport # "none" =>
               x.cont = Probed(x) /\ x.fixed = (x.media \in {"fixed", "station"}),
           Indefinite(x) => x.fixed,
           x.state = "Failed" => Rests(x)
    PROVE  /\ Rests(FailWith(x)) /\ LoadStep(x, FailWith(x)) /\ FailWith(x) \in WorkerRecord
           /\ FailWith(x).pending = x.pending
<1> DEFINE y == FailWith(x)
<1>0. /\ y \in WorkerRecord /\ SameMedia(x, y) /\ SameIntent(x, y) /\ y.state = "Failed"
      /\ x.state = "Failed" => y = x
      /\ x.state # "Failed" =>
           /\ Concluded(x, y)
           /\ y.source = IF Remote(x) THEN "none" ELSE x.source
           /\ y.transport = "none" /\ y.outage = "none"
           /\ y.retired = TRUE /\ y.aim = FALSE
  BY FailIs
<1> HIDE DEF y
<1>1. CASE x.state = "Failed"
  BY <1>0, <1>1 DEF y, LoadStep, SameLoad, SameIntent
<1>2. CASE x.state # "Failed"
  <2>1. Rests(y)
    BY <1>0, <1>2 DEF SameMedia, SameIntent, Concluded, Remote, Probed, Indefinite, Rests
  <2> QED BY <1>0, <1>2, <2>1 DEF y, LoadStep, SameIntent
<1> QED BY <1>1, <1>2

LEMMA RestsFail ==
    ASSUME NEW x \in WorkerRecord, Rests(x)
    PROVE  /\ Rests(FailWith(x)) /\ LoadStep(x, FailWith(x)) /\ FailWith(x) \in WorkerRecord
           /\ FailWith(x).pending = x.pending
BY FailRests DEF Rests

LEMMA StopRests ==
    ASSUME NEW x \in WorkerRecord, Rests(x)
    PROVE  /\ Rests(DoStop(x)) /\ SameLoad(x, DoStop(x)) /\ DoStop(x) \in WorkerRecord
           /\ DoStop(x).pending = x.pending
<1> DEFINE y == DoStop(x)
<1>0. /\ y \in WorkerRecord
      /\ SameMedia(x, y) /\ SameLoad(x, y) /\ SameIntent(x, y)
      /\ x.state \in {"Idle", "Stopped", "Failed"} => y = x
      /\ x.state \notin {"Idle", "Stopped", "Failed"} =>
           /\ y.state = "Stopped"
           /\ y.source = IF Remote(x) THEN "none" ELSE x.source
           /\ y.transport = "none" /\ y.outage = "none"
           /\ y.retired = TRUE /\ y.aim = FALSE
  BY StopIs
<1> HIDE DEF y
<1>1. Rests(y)
  <2>1. CASE x.state \in {"Idle", "Stopped", "Failed"}
    BY <1>0, <2>1
  <2>2. CASE x.state \notin {"Idle", "Stopped", "Failed"}
    BY <1>0, <2>2 DEF SameMedia, SameLoad, SameIntent, Remote, Probed, Indefinite, Rests
  <2> QED BY <2>1, <2>2
<1> QED BY <1>0, <1>1 DEF y, SameIntent

LEMMA PauseRests ==
    ASSUME NEW x \in WorkerRecord, x.attempt = "no", x.loading = 0,
           x.source # "none" \/ x.transport # "none" =>
               x.cont = Probed(x) /\ x.fixed = (x.media \in {"fixed", "station"}),
           Indefinite(x) => x.fixed,
           ~Pausable(x) => Rests(x)
    PROVE  /\ Rests(PauseClosing(x)) /\ SameLoad(x, PauseClosing(x))
           /\ PauseClosing(x) \in WorkerRecord /\ PauseClosing(x).pending = x.pending
<1> DEFINE y == PauseClosing(x)
<1>0. /\ y \in WorkerRecord
      /\ SameMedia(x, y) /\ SameLoad(x, y) /\ SameIntent(x, y)
      /\ ~Pausable(x) => y = x
      /\ Pausable(x) =>
           /\ y.state = "Paused"
           /\ y.source = IF Remote(x) THEN "none" ELSE x.source
           /\ y.transport = "none" /\ y.outage = "none"
           /\ y.retired = TRUE /\ y.aim = FALSE
  BY PauseClosingIs
<1> HIDE DEF y
<1>1. Rests(y)
  <2>1. CASE ~Pausable(x)
    BY <1>0, <2>1
  <2>2. CASE Pausable(x)
    BY <1>0, <2>2 DEF SameMedia, SameLoad, SameIntent, Remote, Probed, Indefinite, Rests,
                      Closed
  <2> QED BY <2>1, <2>2
<1> QED BY <1>0, <1>1 DEF y, SameIntent

LEMMA ReconnectRests ==
    ASSUME NEW x \in WorkerRecord, NEW y \in EnterReconnecting(x),
           x.attempt = "no", x.loading = 0,
           x.source # "none" \/ x.transport # "none" =>
               x.cont = Probed(x) /\ x.fixed = (x.media \in {"fixed", "station"}),
           Indefinite(x) => x.fixed,
           Remote(x),
           x.state = "Failed" => Rests(x)
    PROVE  Rests(y) /\ LoadStep(x, y) /\ y \in WorkerRecord /\ y.pending = x.pending
<1>1. CASE y = FailWith(x)
  BY <1>1, FailRests
<1>2. CASE y # FailWith(x)
  <2>1. /\ y \in WorkerRecord
        /\ SameMedia(x, y) /\ SameLoad(x, y) /\ SameIntent(x, y)
        /\ y.source = "none"
        /\ y.state = "Reconnecting" /\ y.transport = x.transport
        /\ y.outage = "waiting" /\ y.retired = TRUE
    BY <1>2, EnterReconnectingIs
  <2>2. Rests(y)
    BY <2>1 DEF SameMedia, SameLoad, SameIntent, Remote, Probed, Indefinite, Rests, Closed
  <2> QED BY <2>1, <2>2 DEF LoadStep, SameIntent
<1> QED BY <1>1, <1>2

(* What an open, a landing and a device may start from. *)
OpenReady(j, x) ==
    /\ j \in Opens /\ x.source = "none" /\ x.attempt = "no"
    /\ x.transport # "none" =>
         /\ x.cont = Probed(x) /\ x.fixed = (x.media \in {"fixed", "station"})
         /\ x.media # "fixed" => x.state \notin Closed
    /\ Indefinite(x) => x.fixed
    /\ x.loading # 0 <=> j = "load"
    /\ j = "load" => x.transport = "none" /\ x.state = "Loading"
    /\ j = "seek" => x.state # "Failed"
    /\ x.state = "Reconnecting" <=> j \in {"retry", "recover"}
    /\ x.state = "Reconnecting" => x.outage = "waiting" /\ Remote(x)

LEMMA OpenStands ==
    ASSUME NEW x \in WorkerRecord, NEW j, OpenReady(j, x), StartOpen(j, x), mending = FALSE
    PROVE  /\ Stands(job', at', mending', w') /\ w' \in WorkerRecord
           /\ job' = j /\ at' = "open" /\ mending' = FALSE /\ resume' = resume
           /\ SameLoad(x, w') /\ SameIntent(x, w')
           /\ Remote(w') => w'.retired = FALSE /\ w'.aim = FALSE
<1>1. /\ job' = j /\ at' = "open" /\ mending' = FALSE /\ resume' = resume
      /\ w' = IF Remote(x) THEN Begin(x) ELSE x
  BY DEF StartOpen, Go, Stand
<1>2. PICK y : y = w'
  OBVIOUS
<1>3. /\ y \in WorkerRecord /\ SameMedia(x, y) /\ SameLoad(x, y) /\ SameIntent(x, y)
      /\ y.source = x.source /\ y.state = x.state
      /\ y.transport = x.transport /\ y.outage = x.outage
      /\ Remote(x) => y.retired = FALSE /\ y.aim = FALSE
  BY <1>1, <1>2, BeginIs DEF SameMedia, SameLoad, SameIntent
<1>4. PlaceOK(j, "open", FALSE)
  BY DEF PlaceOK, OpenReady, Opens, Lands, LoopPlaces
<1>5. SourceOK(j, "open", y)
  BY <1>3 DEF SourceOK, OpenReady, SameMedia, Probed, Indefinite, Remote
<1>6. AttemptOK(j, "open", FALSE, y)
  BY <1>3 DEF AttemptOK, OpenReady, SameIntent
<1>7. StateOK(j, "open", y)
  BY <1>3 DEF StateOK, OpenReady, SameMedia, Remote
<1>8. LoadOK(j, "open", y)
  BY <1>3 DEF LoadOK, OpenReady, SameLoad
<1>9. Stands(j, "open", FALSE, y)
  BY <1>4, <1>5, <1>6, <1>7, <1>8 DEF Stands
<1>10. Remote(y) = Remote(x)
  BY <1>3 DEF SameMedia, Remote
<1> QED BY <1>1, <1>2, <1>3, <1>9, <1>10

-----------------------------------------------------------------------------
(* The steps of the loop. *)

(* What every step of the worker keeps, and the stored intent with it. *)
IntentStep ==
    w.pending # "none" /\ w'.pending = "none"
        => w'.loading # 0 \/ Indefinite(w) \/ w'.source # "none"

StepOK ==
    /\ Stands(job', at', mending', w') /\ w' \in WorkerRecord /\ resume' \in BOOLEAN
    /\ LoadStep(w, w') /\ IntentStep

(* A remote open begins live, and nothing is aimed at it yet. *)
OpensLive == at' = "open" /\ Remote(w') => ~w'.retired /\ ~w'.aim

LEMMA InLoop ==
    ASSUME EngInv, job = "loop"
    PROVE  w \in WorkerRecord /\ Rests(w) /\ mending = FALSE /\ resume \in BOOLEAN
BY StandsRests DEF EngInv, TypeOK

LEMMA FinishStep ==
    ASSUME NEW x \in WorkerRecord, Rests(x), Finish(x), LoadStep(w, x), 
           w.pending # "none" /\ x.pending = "none"
               => x.loading # 0 \/ Indefinite(w) \/ x.source # "none"
    PROVE  StepOK
BY FinishRests DEF StepOK, IntentStep

LEMMA LoopGoes ==
    ASSUME NEW x \in WorkerRecord, Rests(x), EngInv, job = "loop",
           NEW a \in {"top", "fault", "admit", "reconnect", "pump", "end"},
           Go("loop", a, x), LoadStep(w, x), x.pending = w.pending
    PROVE  StepOK
<1>1. job' = "loop" /\ at' = a /\ w' = x /\ mending' = FALSE /\ resume' \in BOOLEAN
  BY InLoop DEF Go, Stand
<1>2. Stands("loop", a, FALSE, x)
  BY RestsStands
<1> QED BY <1>1, <1>2 DEF StepOK, IntentStep

LEMMA TopOfLoopSteps ==
    ASSUME EngInv, TopOfLoop, ~shutdown
    PROVE  StepOK /\ UNCHANGED <<queue, loads>> /\ at' # "open"
<1>1. job = "loop" /\ w \in WorkerRecord /\ Rests(w)
  BY InLoop DEF TopOfLoop
<1>2. Go("loop", "fault", IF stop THEN DoStop(w) ELSE w) /\ UNCHANGED <<queue, loads>>
  BY DEF TopOfLoop
<1>3. CASE stop
  <2>1. /\ Rests(DoStop(w)) /\ SameLoad(w, DoStop(w)) /\ DoStop(w) \in WorkerRecord
        /\ DoStop(w).pending = w.pending /\ Go("loop", "fault", DoStop(w))
    BY <1>1, <1>2, <1>3, StopRests
  <2>2. StepOK
    BY <1>1, <2>1, LoopGoes DEF LoadStep
  <2> QED BY <1>2, <2>2 DEF Go, Stand
<1>4. CASE ~stop
  <2>1. StepOK
    BY <1>1, <1>2, <1>4, LoopGoes DEF LoadStep, SameLoad
  <2> QED BY <1>2, <2>1 DEF Go, Stand
<1> QED BY <1>3, <1>4

(* Tearing down to land again, with the source that is still open. *)
LEMMA RebuildStep ==
    ASSUME EngInv, NEW x \in WorkerRecord, Rests(x), NEW j \in {"rebuild", "pausing"},
           NEW p \in BOOLEAN, x.source # "none", x.transport # "none",
           StartRebuild(j, x, p), SameLoad(w, x), x.pending = w.pending
    PROVE  StepOK /\ at' # "open"
<1> PICK y : y = Teardown(x)
  OBVIOUS
<1>1. /\ y \in WorkerRecord /\ SameMedia(x, y) /\ SameLoad(x, y) /\ SameIntent(x, y)
      /\ SameFetch(x, y)
      /\ y.state = x.state /\ y.transport = "none" /\ y.outage = x.outage
  BY TeardownIs
<1>2. PICK a \in {"device", "land"} : job' = j /\ at' = a /\ w' = y /\ resume' = p /\ mending' = TRUE
  BY DEF StartRebuild, Stand
<1>3. PlaceOK(j, a, TRUE)
  BY DEF PlaceOK, Opens, Lands
<1>4. SourceOK(j, a, y)
  BY <1>1 DEF SourceOK, Rests, SameMedia, SameFetch, Probed, Indefinite, Remote
<1>5. AttemptOK(j, a, TRUE, y)
  BY <1>1 DEF AttemptOK, Rests, SameIntent, Attempts
<1>6. StateOK(j, a, y)
  BY <1>1 DEF StateOK, Rests, SameMedia, SameFetch, Remote
<1>7. LoadOK(j, a, y)
  BY <1>1 DEF LoadOK, Rests, SameLoad
<1>8. Stands(j, a, TRUE, y)
  BY <1>3, <1>4, <1>5, <1>6, <1>7 DEF Stands
<1>9. LoadStep(w, y) /\ y.pending = w.pending
  BY <1>1 DEF LoadStep, SameLoad, SameIntent
<1> QED BY <1>1, <1>2, <1>8, <1>9 DEF StepOK, IntentStep

LEMMA ServiceFaultsSteps ==
    ASSUME EngInv, ServiceFaults
    PROVE  StepOK /\ at' # "open"
<1>1. job = "loop" /\ w \in WorkerRecord /\ Rests(w)
  BY InLoop DEF ServiceFaults
<1>2. CASE Go("loop", "admit", w)
  <2>1. StepOK
    BY <1>1, <1>2, LoopGoes DEF LoadStep, SameLoad
  <2> QED BY <1>2, <2>1 DEF Go, Stand
<1>3. CASE Go("loop", "admit", FailWith(w))
  <2>1. StepOK
    BY <1>1, <1>3, LoopGoes, RestsFail
  <2> QED BY <1>3, <2>1 DEF Go, Stand
<1>4. CASE w.source = "none" /\ Go("loop", "admit", Teardown(w))
  <2> PICK y : y = Teardown(w)
    OBVIOUS
  <2>1. /\ y \in WorkerRecord /\ SameMedia(w, y) /\ SameLoad(w, y) /\ SameIntent(w, y)
        /\ SameFetch(w, y)
        /\ y.state = w.state /\ y.transport = "none" /\ y.outage = w.outage
    BY <1>1, TeardownIs
  <2>2. Rests(y)
    BY <1>1, <2>1 DEF SameMedia, SameLoad, SameIntent, SameFetch, Remote, Probed, Indefinite,
                      Rests
  <2>3. StepOK
    BY <1>1, <1>4, <2>1, <2>2, LoopGoes DEF LoadStep, SameIntent
  <2> QED BY <1>4, <2>3 DEF Go, Stand
<1>5. CASE w.transport # "none" /\ w.source # "none"
           /\ StartRebuild("rebuild", w, w.state = "Playing")
  <2>1. (w.state = "Playing") \in BOOLEAN
    OBVIOUS
  <2> QED BY <1>1, <1>5, <2>1, RebuildStep DEF SameLoad
<1> QED BY <1>2, <1>3, <1>4, <1>5 DEF ServiceFaults

LEMMA LoopMovesOn ==
    ASSUME EngInv, AdmitNothing \/ ReconnectNothing \/ PumpNothing \/ NotAtEnd
    PROVE  StepOK /\ at' # "open"
<1>1. job = "loop" /\ w \in WorkerRecord /\ Rests(w)
  BY InLoop DEF AdmitNothing, ReconnectNothing, PumpNothing, NotAtEnd
<1>2. PICK a \in {"reconnect", "pump", "end", "top"} : Go("loop", a, w)
  BY DEF AdmitNothing, ReconnectNothing, PumpNothing, NotAtEnd
<1>3. StepOK
  BY <1>1, <1>2, LoopGoes DEF LoadStep, SameLoad
<1> QED BY <1>2, <1>3 DEF Go, Stand

LEMMA OutageOverSteps ==
    ASSUME EngInv, OutageOver
    PROVE  StepOK /\ at' # "open"
<1>1. job = "loop" /\ w \in WorkerRecord /\ Rests(w)
  BY InLoop DEF OutageOver
<1> DEFINE y == [w EXCEPT !.outage = "none"]
<1>2. /\ y \in WorkerRecord /\ SameMedia(w, y) /\ SameLoad(w, y) /\ SameIntent(w, y)
      /\ SameFetch(w, y) /\ y.state = w.state /\ y.transport = w.transport
  BY <1>1 DEF WorkerRecord, SameMedia, SameLoad, SameIntent, SameFetch
<1>3. w.state = "Playing" /\ Go("loop", "pump", y)
  BY DEF OutageOver
<1> HIDE DEF y
<1>4. Rests(y)
  BY <1>1, <1>2, <1>3 DEF SameMedia, SameLoad, SameIntent, SameFetch, Remote, Probed,
                          Indefinite, Rests
<1>5. StepOK
  BY <1>1, <1>2, <1>3, <1>4, LoopGoes DEF LoadStep, SameIntent
<1> QED BY <1>3, <1>5 DEF Go, Stand

LEMMA StartAttemptSteps ==
    ASSUME EngInv, StartAttempt
    PROVE  StepOK /\ (Remote(w') => ~w'.retired /\ ~w'.aim)
<1>1. job = "loop" /\ w \in WorkerRecord /\ Rests(w) /\ mending = FALSE /\ resume \in BOOLEAN
  BY InLoop DEF StartAttempt
<1>2. w.state = "Reconnecting" /\ w.source = "none" /\ Remote(w) /\ w.outage = "waiting"
  BY <1>1 DEF StartAttempt, Rests
<1>3. CASE Indefinite(w)
  <2> PICK r : r = Retire(w)
    OBVIOUS
  <2>1. /\ r \in WorkerRecord /\ SameMedia(w, r) /\ SameLoad(w, r) /\ SameIntent(w, r)
        /\ r.source = w.source /\ r.state = w.state
        /\ r.transport = w.transport /\ r.outage = w.outage
    BY <1>1, RetireIs
  <2> PICK y : y = RetireRemoteSource(r)
    OBVIOUS
  <2>2. /\ y \in WorkerRecord /\ SameMedia(r, y) /\ SameLoad(r, y) /\ SameIntent(r, y)
        /\ y.source = IF Remote(r) THEN "none" ELSE r.source
        /\ y.state = r.state /\ y.transport = r.transport /\ y.outage = r.outage
    BY <2>1, RetireRemoteIs
  <2>3. SameMedia(w, y) /\ SameLoad(w, y) /\ SameIntent(w, y) /\ y.source = "none"
    BY <1>2, <2>1, <2>2 DEF SameMedia, SameLoad, SameIntent
  <2>4. OpenReady("retry", y)
    BY <1>1, <1>2, <2>1, <2>2, <2>3 DEF OpenReady, Rests, SameMedia, SameLoad, SameIntent,
                                        Remote, Probed, Indefinite, Opens, Closed
  <2>5. StartOpen("retry", y)
    BY <1>3 DEF StartAttempt
  <2> QED BY <1>1, <2>2, <2>3, <2>4, <2>5, OpenStands
         DEF StepOK, LoadStep, IntentStep, SameLoad, SameIntent
<1>4. CASE ~Indefinite(w)
  <2> PICK y : y = Teardown(w)
    OBVIOUS
  <2>1. /\ y \in WorkerRecord /\ SameMedia(w, y) /\ SameLoad(w, y) /\ SameIntent(w, y)
        /\ SameFetch(w, y)
        /\ y.state = w.state /\ y.transport = "none" /\ y.outage = w.outage
    BY <1>1, TeardownIs
  <2>2. OpenReady("recover", y)
    BY <1>1, <1>2, <2>1 DEF OpenReady, Rests, SameMedia, SameLoad, SameIntent, SameFetch,
                            Remote, Probed, Indefinite, Opens
  <2>3. StartOpen("recover", y)
    BY <1>4 DEF StartAttempt
  <2> QED BY <1>1, <2>1, <2>2, <2>3, OpenStands
         DEF StepOK, LoadStep, IntentStep, SameLoad, SameIntent
<1> QED BY <1>3, <1>4

LEMMA PumpReadsSteps ==
    ASSUME EngInv, PumpReads
    PROVE  StepOK /\ at' # "open"
<1>1. job = "loop" /\ w \in WorkerRecord /\ Rests(w) /\ mending = FALSE /\ resume \in BOOLEAN
  BY InLoop DEF PumpReads
<1>2. /\ w.state = "Playing" /\ w.transport # "none" /\ w.source # "none"
      /\ job' = "loop" /\ at' = "read" /\ w' = w /\ mending' = FALSE /\ resume' = resume
  BY <1>1 DEF PumpReads, Go, Stand
<1>3. PlaceOK("loop", "read", FALSE) /\ LoadOK("loop", "read", w)
  BY <1>1 DEF PlaceOK, LoopPlaces, Opens, Lands, LoadOK, Rests
<1>4. SourceOK("loop", "read", w) /\ AttemptOK("loop", "read", FALSE, w)
  BY <1>1, <1>2 DEF SourceOK, AttemptOK, Attempts, Rests
<1>5. StateOK("loop", "read", w)
  BY <1>1, <1>2 DEF StateOK, Closed
<1> QED BY <1>1, <1>2, <1>3, <1>4, <1>5 DEF StepOK, Stands, LoadStep, SameLoad, IntentStep

LEMMA EndRests ==
    ASSUME NEW x \in WorkerRecord, Rests(x)
    PROVE  /\ Rests(EndOfTrack(x)) /\ SameLoad(x, EndOfTrack(x))
           /\ EndOfTrack(x) \in WorkerRecord /\ EndOfTrack(x).pending = x.pending
<1> PICK y : y = EndOfTrack(x)
  OBVIOUS
<1>1. /\ y \in WorkerRecord /\ SameMedia(x, y) /\ SameLoad(x, y) /\ SameIntent(x, y)
      /\ SameFetch(x, y) /\ y.state = "Ended"
      /\ y.transport = x.transport /\ y.outage = x.outage
  BY SetStateIs DEF EndOfTrack, States
<1>2. Rests(y)
  BY <1>1 DEF SameMedia, SameLoad, SameIntent, SameFetch, Remote, Probed, Indefinite, Rests,
              Closed
<1> QED BY <1>1, <1>2 DEF SameIntent

LEMMA CheckEndOfTrackSteps ==
    ASSUME EngInv, CheckEndOfTrack
    PROVE  StepOK /\ at' # "open"
<1>1. job = "loop" /\ w \in WorkerRecord /\ Rests(w) /\ mending = FALSE /\ resume \in BOOLEAN
  BY InLoop DEF CheckEndOfTrack
<1>2. w.state = "Playing" /\ w.transport # "none"
  BY DEF CheckEndOfTrack
<1> PICK y : y = CapturePosition(w)
  OBVIOUS
<1>3. /\ y \in WorkerRecord /\ SameMedia(w, y) /\ SameLoad(w, y) /\ SameIntent(w, y)
      /\ SameFetch(w, y) /\ y.state = w.state /\ y.outage = w.outage
      /\ y.transport # "none"
  BY <1>1, <1>2, CaptureIs
<1>4. Rests(y)
  BY <1>1, <1>2, <1>3 DEF SameMedia, SameLoad, SameIntent, SameFetch, Remote, Probed,
                          Indefinite, Rests, Closed
<1>5. CASE Go("loop", "confirm", y)
  <2>1. /\ job' = "loop" /\ at' = "confirm" /\ w' = y /\ mending' = FALSE /\ resume' = resume
    BY <1>1, <1>5 DEF Go, Stand
  <2>2. PlaceOK("loop", "confirm", FALSE) /\ LoadOK("loop", "confirm", y)
    BY <1>4 DEF PlaceOK, LoopPlaces, Opens, Lands, LoadOK, Rests
  <2>3. SourceOK("loop", "confirm", y) /\ AttemptOK("loop", "confirm", FALSE, y)
    BY <1>4 DEF SourceOK, AttemptOK, Attempts, Rests
  <2>4. StateOK("loop", "confirm", y)
    BY <1>2, <1>3 DEF StateOK, Closed
  <2> QED BY <1>1, <1>3, <2>1, <2>2, <2>3, <2>4
         DEF StepOK, Stands, LoadStep, IntentStep, SameIntent
<1>6. CASE Go("loop", "top", EndOfTrack(y))
  <2> PICK z : z = EndOfTrack(y)
    OBVIOUS
  <2>1. Rests(z) /\ SameLoad(y, z) /\ z \in WorkerRecord /\ z.pending = y.pending
    BY <1>3, <1>4, EndRests
  <2>2. LoadStep(w, z) /\ z.pending = w.pending
    BY <1>3, <2>1 DEF LoadStep, SameLoad, SameIntent
  <2>3. StepOK
    BY <1>1, <1>6, <2>1, <2>2, LoopGoes
  <2> QED BY <1>6, <2>3 DEF Go, Stand
<1> QED BY <1>5, <1>6 DEF CheckEndOfTrack

LEMMA ConfirmSteps ==
    ASSUME EngInv, ConfirmRemoteCompletion
    PROVE  StepOK /\ at' # "open"
<1>1. job = "loop" /\ w \in WorkerRecord /\ Rests(w)
  BY InLoop DEF ConfirmRemoteCompletion
<1>2. PICK x \in {w, EndOfTrack(w), FailWith(w)} : Go("loop", "top", x)
  BY DEF ConfirmRemoteCompletion
<1>3. Rests(x) /\ x \in WorkerRecord /\ LoadStep(w, x) /\ x.pending = w.pending
  BY <1>1, EndRests, RestsFail DEF LoadStep, SameLoad
<1>4. StepOK
  BY <1>1, <1>2, <1>3, LoopGoes
<1> QED BY <1>2, <1>4 DEF Go, Stand

-----------------------------------------------------------------------------
(* The commands. *)

LEMMA CaptureRests ==
    ASSUME NEW x \in WorkerRecord, Rests(x)
    PROVE  LET y == CapturePosition(x)
           IN /\ y \in WorkerRecord /\ Rests(y) /\ SameLoad(x, y) /\ SameMedia(x, y)
              /\ y.pending = x.pending /\ y.source = x.source /\ y.state = x.state
              /\ y.transport = "none" <=> x.transport = "none"
<1> PICK y : y = CapturePosition(x)
  OBVIOUS
<1>1. /\ y \in WorkerRecord /\ SameMedia(x, y) /\ SameLoad(x, y) /\ SameIntent(x, y)
      /\ SameFetch(x, y) /\ y.state = x.state /\ y.outage = x.outage
      /\ y.transport = "none" <=> x.transport = "none"
  BY CaptureIs
<1>2. Rests(y)
  BY <1>1 DEF SameMedia, SameLoad, SameIntent, SameFetch, Remote, Probed, Indefinite, Rests,
              Closed
<1> QED BY <1>1, <1>2 DEF SameIntent, SameFetch

(* A change of state that leaves a resting worker at rest. *)
LEMMA StateRests ==
    ASSUME NEW x \in WorkerRecord, Rests(x), NEW s \in States \ {"Reconnecting"},
           s \in Closed => x.transport = "none" \/ x.media = "fixed"
    PROVE  /\ SetState(x, s) \in WorkerRecord /\ Rests(SetState(x, s))
           /\ AdoptState(x, s) \in WorkerRecord /\ Rests(AdoptState(x, s))
           /\ SameLoad(x, SetState(x, s)) /\ SameLoad(x, AdoptState(x, s))
           /\ SameMedia(x, SetState(x, s)) /\ SetState(x, s).state = s
           /\ SetState(x, s).pending = x.pending /\ AdoptState(x, s).pending = x.pending
           /\ SetState(x, s).source = x.source
<1> PICK y : y = SetState(x, s)
  OBVIOUS
<1> PICK z : z = AdoptState(x, s)
  OBVIOUS
<1>1. /\ y \in WorkerRecord /\ SameMedia(x, y) /\ SameLoad(x, y) /\ SameIntent(x, y)
      /\ SameFetch(x, y)
      /\ y.state = s /\ y.transport = x.transport /\ y.outage = x.outage
  BY SetStateIs
<1>2. /\ z \in WorkerRecord /\ SameMedia(x, z) /\ SameLoad(x, z) /\ SameIntent(x, z)
      /\ SameFetch(x, z)
      /\ z.state = s /\ z.transport = x.transport /\ z.outage = x.outage
  BY AdoptStateIs
<1>3. Rests(y)
  BY <1>1 DEF SameMedia, SameLoad, SameIntent, SameFetch, Remote, Probed, Indefinite, Rests
<1>4. Rests(z)
  BY <1>2 DEF SameMedia, SameLoad, SameIntent, SameFetch, Remote, Probed, Indefinite, Rests
<1> QED BY <1>1, <1>2, <1>3, <1>4 DEF SameIntent, SameFetch

(* A landing from where the worker rests. *)
LEMMA LandStands ==
    ASSUME NEW y \in WorkerRecord, Rests(y), y.source # "none",
           NEW j \in {"restore", "seek", "trial", "restart"},
           j = "seek" /\ y.media # "fixed" => y.state \notin Closed
    PROVE  Stands(j, "land", FALSE, y)
<1>1. y.state # "Reconnecting"
  BY DEF Rests
<1>2. PlaceOK(j, "land", FALSE) /\ LoadOK(j, "land", y)
  BY DEF PlaceOK, LoopPlaces, Opens, Lands, LoadOK, Rests
<1>3. SourceOK(j, "land", y) /\ AttemptOK(j, "land", FALSE, y)
  BY DEF SourceOK, AttemptOK, Attempts, Rests
<1>4. StateOK(j, "land", y)
  BY <1>1 DEF StateOK, Rests
<1> QED BY <1>2, <1>3, <1>4 DEF Stands

LEMMA LandStep ==
    ASSUME NEW y \in WorkerRecord, Rests(y), y.source # "none",
           NEW j \in {"restore", "seek", "trial", "restart"},
           j = "seek" /\ y.media # "fixed" => y.state \notin Closed,
           mending = FALSE, resume \in BOOLEAN,
           Go(j, "land", y) \/ (\E p \in BOOLEAN : GoWith(j, "land", y, p)),
           LoadStep(w, y), y.pending = w.pending
    PROVE  StepOK /\ OpensLive
<1>1. job' = j /\ at' = "land" /\ w' = y /\ mending' = FALSE /\ resume' \in BOOLEAN
  BY DEF Go, GoWith, Stand
<1> QED BY <1>1, LandStands DEF StepOK, IntentStep, OpensLive

LEMMA LoadCommandSteps ==
    ASSUME EngInv, job = "loop", NEW c \in QueuedCommand, c.token # 0, Load(c)
    PROVE  /\ Stands(job', at', mending', w') /\ w' \in WorkerRecord /\ resume' \in BOOLEAN
           /\ IntentStep /\ OpensLive
           /\ w'.outcome = w.outcome /\ w'.loading = c.token
<1>1. w \in WorkerRecord /\ Rests(w) /\ mending = FALSE /\ resume \in BOOLEAN
  BY InLoop
<1> DEFINE a == [w EXCEPT !.outage = "none"]
<1>2. /\ a \in WorkerRecord /\ SameMedia(w, a) /\ SameLoad(w, a) /\ SameIntent(w, a)
      /\ SameFetch(w, a)
  BY <1>1 DEF WorkerRecord, SameMedia, SameLoad, SameIntent, SameFetch
<1> HIDE DEF a
<1> DEFINE b == Teardown(a)
<1>3. /\ b \in WorkerRecord /\ SameMedia(a, b) /\ SameLoad(a, b) /\ SameIntent(a, b)
      /\ b.transport = "none"
  BY <1>2, TeardownIs
<1> HIDE DEF b
<1> DEFINE d == CloseSource(b)
<1>4. /\ d \in WorkerRecord /\ SameMedia(b, d) /\ SameLoad(b, d) /\ SameIntent(b, d)
      /\ d.transport = "none" /\ d.source = "none"
  BY <1>3, CloseSourceIs
<1>5. StartOpen("load", SetState([d EXCEPT !.traits = FALSE, !.pending = "none",
                                           !.adopted = 0, !.loading = c.token,
                                           !.media = c.kind], "Loading"))
  BY DEF Load, a, b, d
<1> HIDE DEF d
<1> DEFINE e == [d EXCEPT !.traits = FALSE, !.pending = "none", !.adopted = 0,
                          !.loading = c.token, !.media = c.kind]
<1>6. /\ e.cont = d.cont /\ e.fixed = d.fixed /\ e.outcome = d.outcome
      /\ e.attempt = d.attempt /\ e.transport = "none" /\ e.source = "none"
      /\ e.loading = c.token
  BY <1>4 DEF WorkerRecord
<1>7. e \in WorkerRecord
  <2>1. c.token \in 0 .. MaxLoads /\ c.kind \in MediaKinds /\ 0 \in 0 .. MaxLoads
    BY EngineAssumption DEF QueuedCommand
  <2>2. [d EXCEPT !.traits = FALSE, !.pending = "none", !.adopted = 0] \in WorkerRecord
    BY <1>4, <2>1 DEF WorkerRecord
  <2>3. e = [[d EXCEPT !.traits = FALSE, !.pending = "none", !.adopted = 0]
                 EXCEPT !.loading = c.token, !.media = c.kind]
    OBVIOUS
  <2> QED BY ZenonT(60), <2>1, <2>2, <2>3 DEF WorkerRecord
<1> HIDE DEF e
<1> PICK y : y = SetState(e, "Loading")
  OBVIOUS
<1>8. /\ y \in WorkerRecord /\ SameMedia(e, y) /\ SameLoad(e, y) /\ SameIntent(e, y)
      /\ SameFetch(e, y) /\ y.state = "Loading" /\ y.transport = e.transport
  BY <1>7, SetStateIs DEF States
<1>9. y.attempt = "no" /\ y.loading = c.token /\ y.outcome = w.outcome
      /\ y.source = "none" /\ y.cont = w.cont /\ y.fixed = w.fixed
  BY <1>1, <1>2, <1>3, <1>4, <1>6, <1>8
     DEF SameMedia, SameLoad, SameIntent, SameFetch, Rests
<1>10. OpenReady("load", y)
  BY <1>1, <1>6, <1>8, <1>9 DEF OpenReady, Rests, Indefinite, Opens
<1>11. StartOpen("load", y)
  BY <1>5, <1>8 DEF e
<1> QED BY <1>1, <1>8, <1>9, <1>10, <1>11, OpenStands DEF IntentStep, OpensLive, SameLoad

LEMMA RestoreSteps ==
    ASSUME EngInv, job = "loop", NEW x \in WorkerRecord, Rests(x),
           x.state \in {"Paused", "Loading", "Stopped"},
           SameLoad(w, x), x.pending = w.pending, x.cont = w.cont, Restore(x)
    PROVE  StepOK /\ OpensLive
<1>1. w \in WorkerRecord /\ Rests(w) /\ mending = FALSE /\ resume \in BOOLEAN
  BY InLoop
<1>2. CASE Indefinite(x)
  <2> DEFINE a == [x EXCEPT !.pending = "none"]
  <2>1. /\ a \in WorkerRecord /\ SameMedia(x, a) /\ SameLoad(x, a) /\ SameFetch(x, a)
        /\ a.attempt = x.attempt /\ a.state = x.state /\ a.transport = x.transport
    BY DEF WorkerRecord, SameMedia, SameLoad, SameFetch
  <2>2. StartOpen("rejoin", RetireRemoteSource(Retire(a)))
    BY <1>2 DEF Restore
  <2> HIDE DEF a
  <2> PICK r : r = Retire(a)
    OBVIOUS
  <2>3. /\ r \in WorkerRecord /\ SameMedia(a, r) /\ SameLoad(a, r) /\ SameIntent(a, r)
        /\ r.source = a.source /\ r.state = a.state /\ r.transport = a.transport
    BY <2>1, RetireIs
  <2> PICK y : y = RetireRemoteSource(r)
    OBVIOUS
  <2>4. /\ y \in WorkerRecord /\ SameMedia(r, y) /\ SameLoad(r, y) /\ SameIntent(r, y)
        /\ y.source = IF Remote(r) THEN "none" ELSE r.source
        /\ y.state = r.state /\ y.transport = r.transport
    BY <2>3, RetireRemoteIs
  <2>5. x.source # "none" => Remote(x)
    BY <1>2 DEF Rests, Indefinite, Probed, Remote
  <2>6. /\ SameMedia(x, y) /\ SameLoad(x, y) /\ y.attempt = x.attempt
        /\ y.state = x.state /\ y.transport = x.transport
    BY <2>1, <2>3, <2>4 DEF SameMedia, SameLoad, SameIntent
  <2>7. y.source = "none"
    BY <2>1, <2>3, <2>4, <2>5 DEF SameMedia, SameFetch, Remote
  <2>8. OpenReady("rejoin", y)
    BY <2>6, <2>7 DEF OpenReady, Rests, SameMedia, SameLoad, Remote, Probed, Indefinite,
                      Opens
  <2>9. StartOpen("rejoin", y) /\ Indefinite(w)
    BY <1>2, <2>2, <2>3, <2>4 DEF Indefinite
  <2> QED BY <1>1, <2>4, <2>6, <2>8, <2>9, OpenStands
         DEF StepOK, LoadStep, IntentStep, OpensLive, SameLoad
<1>3. CASE ~Indefinite(x) /\ x.fixed /\ Finish(SetState(x, "Stopped"))
  <2>1. x.transport = "none" \/ x.media = "fixed"
    BY <1>3 DEF Rests, Indefinite, Probed
  <2>2. /\ SetState(x, "Stopped") \in WorkerRecord /\ Rests(SetState(x, "Stopped"))
        /\ SameLoad(x, SetState(x, "Stopped")) /\ SetState(x, "Stopped").pending = x.pending
    BY <2>1, StateRests DEF States
  <2>3. LoadStep(w, SetState(x, "Stopped"))
    BY <2>2 DEF LoadStep, SameLoad
  <2>4. StepOK
    BY <1>3, <2>2, <2>3, FinishStep
  <2> QED BY <1>3, <2>4 DEF Finish, Stand, OpensLive
<1>4. CASE ~Indefinite(x) /\ x.source # "none" /\ Go("restore", "land", CapturePosition(x))
  <2> PICK y : y = CapturePosition(x)
    OBVIOUS
  <2>1. /\ y \in WorkerRecord /\ Rests(y) /\ SameLoad(x, y) /\ SameMedia(x, y)
        /\ y.pending = x.pending /\ y.source = x.source /\ y.state = x.state
    BY CaptureRests
  <2>2. LoadStep(w, y) /\ y.pending = w.pending
    BY <2>1 DEF LoadStep, SameLoad
  <2> QED BY <1>1, <1>4, <2>1, <2>2, LandStep
<1>5. CASE ~Indefinite(x) /\ x.source = "none" /\ StartOpen("restore", x)
  <2>1. OpenReady("restore", x)
    BY <1>5 DEF OpenReady, Rests, Opens
  <2> QED BY <1>1, <1>5, <2>1, OpenStands
         DEF StepOK, LoadStep, IntentStep, OpensLive, SameLoad, SameIntent
<1> QED BY <1>2, <1>3, <1>4, <1>5 DEF Restore

LEMMA FinishNow ==
    ASSUME EngInv, job = "loop", Finish(w)
    PROVE  StepOK /\ OpensLive
<1>1. StepOK
  BY InLoop, FinishStep DEF LoadStep, SameLoad
<1> QED BY <1>1 DEF Finish, Stand, OpensLive

LEMMA FinishLive ==
    ASSUME NEW x, Finish(x)
    PROVE  OpensLive
BY DEF Finish, Stand, OpensLive

LEMMA PlaySteps ==
    ASSUME EngInv, job = "loop", NEW primed \in BOOLEAN, Play(primed)
    PROVE  StepOK /\ OpensLive
<1>1. w \in WorkerRecord /\ Rests(w) /\ w.state \in States
  BY InLoop DEF WorkerRecord
<1>2. CASE Finish(w)
  BY <1>2, FinishNow
<1>3. CASE w.state \in {"Paused", "Loading", "Stopped"} /\ Restore(w)
  BY <1>1, <1>3, RestoreSteps DEF SameLoad
<1>4. CASE w.state = "Failed" /\ Restore(SetState(w, "Loading"))
  <2> PICK y : y = SetState(w, "Loading")
    OBVIOUS
  <2>1. /\ y \in WorkerRecord /\ Rests(y) /\ SameLoad(w, y) /\ SameMedia(w, y)
        /\ y.state = "Loading" /\ y.pending = w.pending
    BY <1>1, StateRests DEF States, Closed
  <2> QED BY <1>4, <2>1, RestoreSteps DEF SameMedia
<1>5. CASE w.state = "Paused" /\ w.transport # "none" /\ w.pending = "none"
           /\ Finish(SetState(StartRunning([w EXCEPT !.byHook = FALSE]), "Playing"))
  <2> DEFINE a == [w EXCEPT !.byHook = FALSE]
  <2>1. /\ a \in WorkerRecord /\ SameMedia(w, a) /\ SameLoad(w, a) /\ SameIntent(w, a)
        /\ SameFetch(w, a) /\ a.state = w.state /\ a.transport = w.transport
        /\ a.outage = w.outage
    BY <1>1 DEF WorkerRecord, SameMedia, SameLoad, SameIntent, SameFetch
  <2>2. Finish(SetState(StartRunning(a), "Playing"))
    BY <1>5
  <2> HIDE DEF a
  <2> PICK b : b = StartRunning(a)
    OBVIOUS
  <2>3. /\ b \in WorkerRecord /\ SameMedia(a, b) /\ SameLoad(a, b) /\ SameIntent(a, b)
        /\ SameFetch(a, b) /\ b.state = a.state /\ b.outage = a.outage
        /\ b.transport = "none" <=> a.transport = "none"
    BY <2>1, StartRunningIs
  <2>4. Rests(b) /\ b.pending = w.pending /\ SameLoad(w, b)
    BY <1>1, <2>1, <2>3 DEF SameMedia, SameLoad, SameIntent, SameFetch, Remote, Probed,
                            Indefinite, Rests
  <2> PICK y : y = SetState(b, "Playing")
    OBVIOUS
  <2>5. /\ y \in WorkerRecord /\ Rests(y) /\ SameLoad(b, y) /\ y.pending = b.pending
    BY <2>3, <2>4, StateRests DEF States, Closed
  <2>6. LoadStep(w, y) /\ y.pending = w.pending
    BY <2>4, <2>5 DEF LoadStep, SameLoad
  <2> QED BY <2>2, <2>3, <2>5, <2>6, FinishStep, FinishLive
<1>6. \/ Finish(w)
      \/ w.state \in {"Paused", "Loading", "Stopped"} /\ Restore(w)
      \/ w.state = "Failed" /\ Restore(SetState(w, "Loading"))
      \/ w.state = "Paused" /\ w.transport # "none" /\ w.pending = "none"
           /\ Finish(SetState(StartRunning([w EXCEPT !.byHook = FALSE]), "Playing"))
  <2>1. CASE w.state = "Paused" /\ Indefinite(w) /\ ~primed
    BY <2>1 DEF Play
  <2>2. CASE w.state \in {"Playing", "Reconnecting", "Ended", "Idle"}
    BY <2>2 DEF Play
  <2>3. CASE w.state = "Failed"
    BY <2>3 DEF Play
  <2>4. CASE w.state = "Paused" /\ (~Indefinite(w) \/ primed) /\ w.transport # "none"
             /\ w.pending = "none"
    BY <2>4 DEF Play
  <2>5. CASE /\ w.state \in {"Paused", "Loading", "Stopped"}
             /\ ~(w.state = "Paused" /\ Indefinite(w) /\ ~primed)
             /\ ~(w.state = "Paused" /\ (~Indefinite(w) \/ primed)
                    /\ w.transport # "none" /\ w.pending = "none")
    <3>1. Restore(w)
      BY <2>5 DEF Play
    <3> QED BY <2>5, <3>1
  <2> QED BY <1>1, <2>1, <2>2, <2>3, <2>4, <2>5 DEF States
<1> QED BY <1>2, <1>3, <1>4, <1>5, <1>6

LEMMA PauseSteps ==
    ASSUME EngInv, job = "loop", Pause
    PROVE  StepOK /\ OpensLive
<1>1. w \in WorkerRecord /\ Rests(w) /\ mending = FALSE /\ resume \in BOOLEAN
  BY InLoop
<1>2. CASE Finish(PauseClosing(w))
  <2>1. /\ Rests(PauseClosing(w)) /\ SameLoad(w, PauseClosing(w))
        /\ PauseClosing(w) \in WorkerRecord /\ PauseClosing(w).pending = w.pending
    BY <1>1, PauseRests DEF Rests
  <2> QED BY <1>2, <2>1, FinishStep, FinishLive DEF LoadStep
<1>3. CASE Finish(w)
  BY <1>3, FinishNow
<1> DEFINE x == [w EXCEPT !.outage = "none"]
<1>4. /\ x \in WorkerRecord /\ SameMedia(w, x) /\ SameLoad(w, x) /\ SameIntent(w, x)
      /\ SameFetch(w, x) /\ x.state = w.state /\ x.transport = w.transport
      /\ x.outage = "none"
  BY <1>1 DEF WorkerRecord, SameMedia, SameLoad, SameIntent, SameFetch
<1>5. \/ Finish(PauseClosing(w)) \/ Finish(w)
      \/ /\ w.state = "Playing"
         /\ \/ Finish(AdoptState(x, "Paused"))
            \/ Finish(SetState(ReconcileFrozenByHook(CapturePosition(x)), "Paused"))
            \/ Finish(FailWith(Teardown(x)))
            \/ /\ w.transport # "none" /\ w.source # "none"
               /\ StartRebuild("pausing", x, FALSE)
  <2>1. CASE w.state # "Playing"
    BY <2>1 DEF Pause
  <2>2. CASE w.state = "Playing" /\ w.byHook
    BY <2>2 DEF Pause
  <2>3. CASE w.state = "Playing" /\ ~w.byHook
    BY <2>3 DEF Pause
  <2> QED BY <2>1, <2>2, <2>3
<1> HIDE DEF x
<1>6. w.state = "Playing" => Rests(x)
  BY <1>1, <1>4 DEF SameMedia, SameLoad, SameIntent, SameFetch, Remote, Probed, Indefinite,
                    Rests
<1>7. SameLoad(w, x) /\ x.pending = w.pending
  BY <1>4 DEF SameIntent
<1>8. CASE w.state = "Playing" /\ Finish(AdoptState(x, "Paused"))
  <2>1. /\ AdoptState(x, "Paused") \in WorkerRecord /\ Rests(AdoptState(x, "Paused"))
        /\ SameLoad(x, AdoptState(x, "Paused")) /\ AdoptState(x, "Paused").pending = x.pending
    BY <1>4, <1>6, <1>8, StateRests DEF States, Closed
  <2>2. LoadStep(w, AdoptState(x, "Paused")) /\ AdoptState(x, "Paused").pending = w.pending
    BY <1>7, <2>1 DEF LoadStep, SameLoad
  <2> QED BY <1>8, <2>1, <2>2, FinishStep, FinishLive
<1>9. CASE w.state = "Playing"
           /\ Finish(SetState(ReconcileFrozenByHook(CapturePosition(x)), "Paused"))
  <2> PICK b : b = CapturePosition(x)
    OBVIOUS
  <2>1. /\ b \in WorkerRecord /\ Rests(b) /\ SameLoad(x, b) /\ b.pending = x.pending
    BY <1>4, <1>6, <1>9, CaptureRests
  <2> PICK d : d = ReconcileFrozenByHook(b)
    OBVIOUS
  <2>2. d = b \/ d = [b EXCEPT !.byHook = TRUE]
    BY DEF ReconcileFrozenByHook
  <2>3. d \in WorkerRecord /\ Rests(d) /\ SameLoad(b, d) /\ d.pending = b.pending
    <3>1. CASE d = b
      BY <2>1, <3>1 DEF SameLoad
    <3>2. CASE d = [b EXCEPT !.byHook = TRUE]
      <4>1. /\ d \in WorkerRecord /\ SameMedia(b, d) /\ SameLoad(b, d) /\ SameIntent(b, d)
            /\ SameFetch(b, d) /\ d.state = b.state /\ d.transport = b.transport
            /\ d.outage = b.outage
        BY ZenonT(60), <2>1, <3>2 DEF WorkerRecord, SameMedia, SameLoad, SameIntent, SameFetch
      <4> QED BY <2>1, <4>1 DEF SameMedia, SameLoad, SameIntent, SameFetch, Remote, Probed,
                                Indefinite, Rests
    <3> QED BY <2>2, <3>1, <3>2
  <2> PICK y : y = SetState(d, "Paused")
    OBVIOUS
  <2>4. y \in WorkerRecord /\ Rests(y) /\ SameLoad(d, y) /\ y.pending = d.pending
    BY <2>3, StateRests DEF States, Closed
  <2>5. LoadStep(w, y) /\ y.pending = w.pending
    BY <1>7, <2>1, <2>3, <2>4 DEF LoadStep, SameLoad
  <2> QED BY <1>9, <2>4, <2>5, FinishStep, FinishLive
<1>10. CASE w.state = "Playing" /\ Finish(FailWith(Teardown(x)))
  <2> PICK b : b = Teardown(x)
    OBVIOUS
  <2>1. /\ b \in WorkerRecord /\ SameMedia(x, b) /\ SameLoad(x, b) /\ SameIntent(x, b)
        /\ SameFetch(x, b)
        /\ b.state = x.state /\ b.transport = "none" /\ b.outage = x.outage
    BY <1>4, TeardownIs
  <2>2. Rests(b)
    BY <1>6, <1>10, <2>1 DEF SameMedia, SameLoad, SameIntent, SameFetch, Remote, Probed,
                             Indefinite, Rests
  <2>3. /\ Rests(FailWith(b)) /\ LoadStep(b, FailWith(b)) /\ FailWith(b) \in WorkerRecord
        /\ FailWith(b).pending = b.pending
    BY <2>1, <2>2, RestsFail
  <2>4. LoadStep(w, FailWith(b)) /\ FailWith(b).pending = w.pending
    BY <1>7, <2>1, <2>3 DEF LoadStep, SameLoad, Concluded, SameIntent
  <2> QED BY <1>10, <2>3, <2>4, FinishStep, FinishLive
<1>11. CASE /\ w.state = "Playing" /\ w.transport # "none" /\ w.source # "none"
            /\ StartRebuild("pausing", x, FALSE)
  <2>1. x.source # "none" /\ x.transport # "none"
    BY <1>4, <1>11 DEF SameFetch
  <2> QED BY <1>4, <1>6, <1>7, <1>11, <2>1, RebuildStep DEF OpensLive
<1> QED BY <1>2, <1>3, <1>5, <1>8, <1>9, <1>10, <1>11

LEMMA SeekOpenedSteps ==
    ASSUME NEW x \in WorkerRecord, Rests(x), x.source # "none", x.state # "Failed",
           mending = FALSE, resume \in BOOLEAN, LoadStep(w, x), x.pending = w.pending,
           SeekOpened(x)
    PROVE  StepOK /\ OpensLive
<1>1. CASE Finish([x EXCEPT !.pending = "seek"])
  <2> DEFINE y == [x EXCEPT !.pending = "seek"]
  <2>1. /\ y \in WorkerRecord /\ SameLoad(x, y) /\ y.pending = "seek" /\ SameMedia(x, y)
        /\ SameFetch(x, y) /\ y.attempt = x.attempt /\ y.state = x.state
        /\ y.transport = x.transport /\ y.outage = x.outage
    BY DEF WorkerRecord, SameLoad, SameMedia, SameFetch
  <2>2. Finish(y)
    BY <1>1
  <2> HIDE DEF y
  <2>3. Rests(y)
    BY <2>1 DEF SameMedia, SameLoad, SameFetch, Remote, Probed, Indefinite, Rests
  <2>4. LoadStep(w, y)
    BY <2>1 DEF LoadStep, SameLoad, Concluded
  <2> QED BY <2>1, <2>2, <2>3, <2>4, FinishStep, FinishLive
<1>2. CASE Go("trial", "land", x)
  BY <1>2, LandStep
<1>3. CASE /\ x.state \notin {"Idle", "Stopped"}
           /\ GoWith("seek", "land", CapturePosition(x), x.state = "Playing")
  <2> PICK y : y = CapturePosition(x)
    OBVIOUS
  <2>1. /\ y \in WorkerRecord /\ Rests(y) /\ SameLoad(x, y) /\ SameMedia(x, y)
        /\ y.pending = x.pending /\ y.source = x.source /\ y.state = x.state
    BY CaptureRests
  <2>2. LoadStep(w, y) /\ y.pending = w.pending /\ y.state \notin Closed
    BY <1>3, <2>1 DEF LoadStep, SameLoad, Concluded, Closed
  <2>3. \E p \in BOOLEAN : GoWith("seek", "land", y, p)
    <3>1. (x.state = "Playing") \in BOOLEAN
      OBVIOUS
    <3> QED BY <1>3, <3>1
  <2> QED BY <2>1, <2>2, <2>3, LandStep
<1> QED BY <1>1, <1>2, <1>3 DEF SeekOpened

LEMMA PendingStep ==
    ASSUME EngInv, job = "loop", NEW p \in {"seek", "restart"},
           Finish([w EXCEPT !.pending = p])
    PROVE  StepOK /\ OpensLive
<1>1. w \in WorkerRecord /\ Rests(w)
  BY InLoop
<1> DEFINE y == [w EXCEPT !.pending = p]
<1>2. /\ y \in WorkerRecord /\ SameLoad(w, y) /\ y.pending = p /\ SameMedia(w, y)
      /\ SameFetch(w, y) /\ y.attempt = w.attempt /\ y.state = w.state
      /\ y.transport = w.transport /\ y.outage = w.outage
  BY <1>1 DEF WorkerRecord, SameLoad, SameMedia, SameFetch
<1>3. Finish(y)
  OBVIOUS
<1> HIDE DEF y
<1>4. Rests(y)
  BY <1>1, <1>2 DEF SameMedia, SameLoad, SameFetch, Remote, Probed, Indefinite, Rests
<1> QED BY <1>2, <1>3, <1>4, FinishStep, FinishLive DEF LoadStep

LEMMA SeekSteps ==
    ASSUME EngInv, job = "loop", Seek
    PROVE  StepOK /\ OpensLive
<1>1. w \in WorkerRecord /\ Rests(w) /\ mending = FALSE /\ resume \in BOOLEAN
  BY InLoop
<1>2. CASE Finish(w)
  BY <1>2, FinishNow
<1>3. CASE Finish([w EXCEPT !.pending = "seek"])
  BY <1>3, PendingStep
<1>4. CASE /\ w.state # "Failed" /\ ~HoldsIntentOffline(w) /\ ~w.fixed
           /\ w.source = "none" /\ StartOpen("seek", w)
  <2>1. w.state # "Reconnecting"
    BY <1>1, <1>4 DEF HoldsIntentOffline, Rests
  <2>2. OpenReady("seek", w)
    BY <1>1, <1>4, <2>1 DEF OpenReady, Rests, Opens
  <2> QED BY <1>1, <1>4, <2>2, OpenStands
         DEF StepOK, LoadStep, IntentStep, OpensLive, SameLoad, SameIntent
<1>5. CASE w.state # "Failed" /\ w.source # "none" /\ SeekOpened(w)
  BY <1>1, <1>5, SeekOpenedSteps DEF LoadStep, SameLoad
<1> QED BY <1>2, <1>3, <1>4, <1>5 DEF Seek

LEMMA RestartSteps ==
    ASSUME EngInv, job = "loop", Restart
    PROVE  StepOK /\ OpensLive
<1>1. w \in WorkerRecord /\ Rests(w) /\ mending = FALSE /\ resume \in BOOLEAN
  BY InLoop
<1>2. CASE Finish(w)
  BY <1>2, FinishNow
<1>3. CASE Finish([w EXCEPT !.pending = "restart"])
  BY <1>3, PendingStep
<1>4. CASE /\ ~Indefinite(w) /\ ~HoldsIntentOffline(w)
           /\ w.source = "none" /\ StartOpen("restart", w)
  <2>1. w.state # "Reconnecting"
    BY <1>1, <1>4 DEF HoldsIntentOffline, Rests
  <2>2. OpenReady("restart", w)
    BY <1>1, <1>4, <2>1 DEF OpenReady, Rests, Opens
  <2> QED BY <1>1, <1>4, <2>2, OpenStands
         DEF StepOK, LoadStep, IntentStep, OpensLive, SameLoad, SameIntent
<1>5. CASE w.source # "none" /\ Go("restart", "land", CapturePosition(w))
  <2> PICK y : y = CapturePosition(w)
    OBVIOUS
  <2>1. /\ y \in WorkerRecord /\ Rests(y) /\ SameLoad(w, y) /\ SameMedia(w, y)
        /\ y.pending = w.pending /\ y.source = w.source /\ y.state = w.state
    BY <1>1, CaptureRests
  <2> QED BY <1>1, <1>5, <2>1, LandStep DEF LoadStep
<1> QED BY <1>2, <1>3, <1>4, <1>5 DEF Restart

LEMMA QueueTail ==
    ASSUME NEW q \in Seq(QueuedCommand), q # <<>>
    PROVE  /\ Tail(q) \in Seq(QueuedCommand) /\ Len(Tail(q)) = Len(q) - 1
           /\ Head(q) = q[1] /\ q[1] \in QueuedCommand /\ 1 \in DOMAIN q
           /\ \A i \in DOMAIN Tail(q) : Tail(q)[i] = q[i + 1] /\ i + 1 \in DOMAIN q
                                        /\ i + 1 # 1 /\ i \in Nat
           /\ \A i \in DOMAIN q : i # 1 => \E k \in DOMAIN Tail(q) : q[i] = Tail(q)[k]
<1>1. Len(q) \in Nat \ {0} /\ DOMAIN q = 1 .. Len(q) /\ Tail(q) \in Seq(QueuedCommand)
      /\ Len(Tail(q)) = Len(q) - 1 /\ DOMAIN Tail(q) = 1 .. (Len(q) - 1)
      /\ \A i \in 1 .. (Len(q) - 1) : Tail(q)[i] = q[i + 1]
  OBVIOUS
<1>2. \A i \in 1 .. Len(q) : q[i] \in QueuedCommand
  OBVIOUS
<1>3. \A i \in DOMAIN q : i # 1 => \E k \in DOMAIN Tail(q) : q[i] = Tail(q)[k]
  <2> SUFFICES ASSUME NEW i \in DOMAIN q, i # 1
               PROVE  \E k \in DOMAIN Tail(q) : q[i] = Tail(q)[k]
    OBVIOUS
  <2>1. i - 1 \in 1 .. (Len(q) - 1) /\ (i - 1) + 1 = i
    BY <1>1
  <2>2. Tail(q)[i - 1] = q[i]
    BY <1>1, <2>1
  <2> QED BY <1>1, <2>1, <2>2
<1>4. \A i \in DOMAIN Tail(q) : Tail(q)[i] = q[i + 1] /\ i + 1 \in DOMAIN q /\ i + 1 # 1
                                /\ i \in Nat
  BY <1>1
<1> QED BY <1>1, <1>2, <1>3, <1>4

(* Taking a command off the queue. *)
LEMMA TakenAnswers ==
    ASSUME NEW q \in Seq(QueuedCommand), q # <<>>, NEW n \in 0 .. MaxLoads,
           NEW x \in WorkerRecord, AnswersOK(q, n, x), NEW y \in WorkerRecord,
           \/ Head(q).cmd # "Load" /\ SameLoad(x, y)
           \/ Head(q).cmd = "Load" /\ x.loading = 0 /\ y.loading = Head(q).token
                /\ y.outcome = x.outcome
    PROVE  AnswersOK(Tail(q), n, y)
<1> DEFINE t == Tail(q)
<1>1. /\ Head(q) = q[1] /\ q[1] \in QueuedCommand /\ 1 \in DOMAIN q
      /\ \A i \in DOMAIN t : t[i] = q[i + 1] /\ i + 1 \in DOMAIN q /\ i + 1 # 1 /\ i \in Nat
      /\ \A i \in DOMAIN q : i # 1 => \E k \in DOMAIN t : q[i] = t[k]
  BY QueueTail
<1> HIDE DEF t
<1>2. \A i \in DOMAIN t : t[i].cmd = "Load" => t[i].token \in 1 .. n
  BY SMTT(60), <1>1 DEF AnswersOK
<1>3. ASSUME NEW i \in DOMAIN t, NEW k \in DOMAIN t,
             t[i].cmd = "Load", t[k].cmd = "Load", t[i].token = t[k].token
      PROVE  i = k
  <2>1. i + 1 = k + 1
    BY SMTT(60), <1>1, <1>3 DEF AnswersOK
  <2>2. i \in Nat /\ k \in Nat
    BY <1>1
  <2> QED BY <2>1, <2>2
<1>4. \A r : IsQueued(t, r) => IsQueued(q, r)
  BY <1>1 DEF IsQueued
<1>5. \A r : IsQueued(q, r) => IsQueued(t, r) \/ (q[1].cmd = "Load" /\ q[1].token = r)
  BY <1>1 DEF IsQueued
<1>6. CASE Head(q).cmd # "Load" /\ SameLoad(x, y)
  <2>1. \A r : IsQueued(t, r) <=> IsQueued(q, r)
    BY <1>1, <1>4, <1>5, <1>6
  <2>2. y.loading \in 0 .. n /\ ~(y.loading # 0 /\ IsQueued(t, y.loading))
    BY <1>6, <2>1 DEF AnswersOK, SameLoad
  <2>3. \A r \in Tokens :
            y.outcome[r] = IF r > n \/ r = y.loading \/ IsQueued(t, r) THEN 0 ELSE 1
    BY <1>6, <2>1 DEF AnswersOK, SameLoad
  <2> QED BY <1>2, <1>3, <2>2, <2>3 DEF AnswersOK, t
<1>7. CASE Head(q).cmd = "Load" /\ x.loading = 0 /\ y.loading = Head(q).token
           /\ y.outcome = x.outcome
  <2> DEFINE k == q[1].token
  <2>1. k \in 1 .. n /\ y.loading = k /\ IsQueued(q, k)
    BY <1>1, <1>7 DEF AnswersOK, IsQueued
  <2>2. ~IsQueued(t, k)
    <3> SUFFICES ASSUME NEW i \in DOMAIN t, t[i].cmd = "Load", t[i].token = k
                 PROVE  FALSE
      BY DEF IsQueued
    <3>1. i + 1 \in DOMAIN q /\ q[i + 1].cmd = "Load" /\ q[i + 1].token = q[1].token
          /\ i + 1 # 1
      BY <1>1
    <3> QED BY <1>1, <1>7, <3>1 DEF AnswersOK
  <2>3. y.loading \in 0 .. n
    BY <2>1, EngineAssumption
  <2>4. ASSUME NEW r \in Tokens
        PROVE  y.outcome[r] = IF r > n \/ r = y.loading \/ IsQueued(t, r) THEN 0 ELSE 1
    <3>1. r # 0
      BY DEF Tokens
    <3>2. CASE r = k
      BY <1>7, <2>1, <3>2 DEF AnswersOK
    <3>3. CASE r # k
      <4>1. IsQueued(t, r) <=> IsQueued(q, r)
        BY <1>4, <1>5, <3>3
      <4> QED BY <1>7, <2>1, <3>1, <3>3, <4>1 DEF AnswersOK
    <3> QED BY <3>2, <3>3
  <2> QED BY <1>2, <1>3, <2>1, <2>2, <2>3, <2>4 DEF AnswersOK, t
<1> QED BY <1>6, <1>7

LEMMA DispatchSteps ==
    ASSUME EngInv, Dispatch
    PROVE  /\ Stands(job', at', mending', w') /\ w' \in WorkerRecord /\ resume' \in BOOLEAN
           /\ IntentStep /\ OpensLive
           /\ queue' \in Seq(QueuedCommand) /\ Len(queue') <= QueueCap
           /\ AnswersOK(queue', loads', w')
<1>1. /\ w \in WorkerRecord /\ Rests(w) /\ job = "loop" /\ queue \in Seq(QueuedCommand)
      /\ queue # <<>> /\ queue' = Tail(queue) /\ loads' = loads /\ loads \in 0 .. MaxLoads
      /\ AnswersOK(queue, loads, w) /\ Len(queue) <= QueueCap
  BY InLoop DEF Dispatch, EngInv, TypeOK
<1> DEFINE c == Head(queue)
<1>2. c \in QueuedCommand /\ c = queue[1] /\ 1 \in DOMAIN queue
      /\ Tail(queue) \in Seq(QueuedCommand) /\ Len(Tail(queue)) = Len(queue) - 1
  BY <1>1, QueueTail
<1>3. Len(Tail(queue)) <= QueueCap
  <2>1. Len(queue) \in Nat /\ QueueCap \in Nat
    BY <1>1, EngineAssumption
  <2> QED BY <1>1, <1>2, <2>1
<1>4. CASE c.cmd = "Load"
  <2>1. Load(c)
    BY <1>4 DEF Dispatch
  <2>2. c.token # 0
    <3>1. c.token \in 1 .. loads
      BY <1>1, <1>2, <1>4 DEF AnswersOK
    <3> QED BY <3>1, <1>1
  <2>3. /\ Stands(job', at', mending', w') /\ w' \in WorkerRecord /\ resume' \in BOOLEAN
        /\ IntentStep /\ OpensLive
        /\ w'.outcome = w.outcome /\ w'.loading = c.token
    BY <1>1, <1>2, <2>1, <2>2, LoadCommandSteps
  <2>4. w.loading = 0
    BY <1>1 DEF Rests
  <2>5. AnswersOK(Tail(queue), loads, w')
    BY <1>1, <1>4, <2>3, <2>4, TakenAnswers
  <2> QED BY <1>1, <1>2, <1>3, <2>3, <2>5
<1>5. CASE c.cmd # "Load"
  <2>1. \/ Play(FALSE) \/ Play(TRUE) \/ Pause \/ Seek \/ Restart \/ Finish(w)
    <3>1. c.cmd \in {"Play", "Pause", "Seek", "Restart", "PlayLoaded"}
      BY <1>5, <1>2 DEF QueuedCommand, CommandKinds
    <3>2. CASE c.cmd = "Play"
      BY <3>2 DEF Dispatch
    <3>3. CASE c.cmd = "Pause"
      BY <3>3 DEF Dispatch
    <3>4. CASE c.cmd = "Seek"
      BY <3>4 DEF Dispatch
    <3>5. CASE c.cmd = "Restart"
      BY <3>5 DEF Dispatch
    <3>6. CASE c.cmd = "PlayLoaded"
      BY <3>6 DEF Dispatch
    <3> QED BY <3>1, <3>2, <3>3, <3>4, <3>5, <3>6
  <2>2. StepOK /\ OpensLive
    <3>1. CASE Play(FALSE)
      BY <1>1, <3>1, PlaySteps
    <3>2. CASE Play(TRUE)
      BY <1>1, <3>2, PlaySteps
    <3> QED BY <1>1, <2>1, <3>1, <3>2, PauseSteps, SeekSteps, RestartSteps, FinishNow
  <2>3. SameLoad(w, w')
    BY <1>1, <2>2 DEF StepOK, LoadStep, SameLoad, Concluded, Rests
  <2>4. AnswersOK(Tail(queue), loads, w')
    BY <1>1, <1>5, <2>2, <2>3, TakenAnswers DEF StepOK
  <2> QED BY <1>1, <1>2, <1>3, <2>2, <2>4 DEF StepOK
<1> QED BY <1>4, <1>5

-----------------------------------------------------------------------------
(* Openings. *)

LEMMA AtOpen ==
    ASSUME EngInv, at = "open"
    PROVE  w \in WorkerRecord /\ OpenReady(job, w) /\ mending = FALSE /\ resume \in BOOLEAN
<1>1. w \in WorkerRecord /\ resume \in BOOLEAN /\ Stands(job, "open", mending, w)
  BY DEF EngInv, TypeOK
<1>2. job \in Opens /\ mending = FALSE
  BY <1>1 DEF Stands, PlaceOK
<1>3. w.source = "none" /\ (Indefinite(w) => w.fixed)
      /\ (w.transport # "none" =>
             w.cont = Probed(w) /\ w.fixed = (w.media \in {"fixed", "station"}))
  BY <1>1 DEF Stands, SourceOK
<1>4. w.attempt = "no" /\ (job = "load" => w.transport = "none")
  BY <1>1, <1>2 DEF Stands, AttemptOK
<1>5. /\ w.transport # "none" /\ w.media # "fixed" => w.state \notin Closed
      /\ job = "seek" => w.state # "Failed"
      /\ w.state = "Reconnecting" <=> job \in {"retry", "recover"}
      /\ w.state = "Reconnecting" => w.outage = "waiting" /\ Remote(w)
  BY <1>1, <1>2 DEF Stands, StateOK, Opens
<1>6. (w.loading # 0 <=> job = "load") /\ (job = "load" => w.state = "Loading")
  BY <1>1 DEF Stands, LoadOK
<1> QED BY <1>1, <1>2, <1>3, <1>4, <1>5, <1>6 DEF OpenReady

LEMMA OpenRests ==
    ASSUME NEW j, NEW x \in WorkerRecord, OpenReady(j, x), Remote(x) => x.retired,
           x.loading = 0
    PROVE  Rests(x)
BY DEF OpenReady, Rests

LEMMA FailedAttemptRests ==
    ASSUME NEW x \in WorkerRecord, NEW cause, NEW y \in AttemptFails(x, cause),
           x.attempt = "no", x.loading = 0, Remote(x),
           x.source # "none" \/ x.transport # "none" =>
               x.cont = Probed(x) /\ x.fixed = (x.media \in {"fixed", "station"}),
           Indefinite(x) => x.fixed,
           x.state = "Failed" => Rests(x)
    PROVE  Rests(y) /\ LoadStep(x, y) /\ y \in WorkerRecord /\ y.pending = x.pending
<1>1. CASE cause = "retry"
  <2> PICK a : a = AdoptState(x, "Reconnecting")
    OBVIOUS
  <2>1. /\ a \in WorkerRecord /\ SameMedia(x, a) /\ SameLoad(x, a) /\ SameIntent(x, a)
        /\ SameFetch(x, a)
        /\ a.state = "Reconnecting" /\ a.transport = x.transport /\ a.outage = x.outage
    BY AdoptStateIs DEF States
  <2>2. y \in EnterReconnecting(a)
    BY <1>1, <2>1 DEF AttemptFails
  <2>3. /\ a.attempt = "no" /\ a.loading = 0 /\ Remote(a)
        /\ a.source # "none" \/ a.transport # "none" =>
               a.cont = Probed(a) /\ a.fixed = (a.media \in {"fixed", "station"})
        /\ Indefinite(a) => a.fixed
    BY <2>1 DEF SameMedia, SameLoad, SameIntent, SameFetch, Remote, Probed, Indefinite
  <2>4. Rests(y) /\ LoadStep(a, y) /\ y \in WorkerRecord /\ y.pending = a.pending
    BY <2>1, <2>2, <2>3, ReconnectRests
  <2>5. LoadStep(x, y)
    BY <2>1, <2>4 DEF LoadStep, SameLoad, Concluded
  <2> QED BY <2>1, <2>4, <2>5 DEF SameIntent
<1>2. CASE cause # "retry"
  <2>1. y = FailWith(x)
    BY <1>2 DEF AttemptFails
  <2> QED BY <2>1, FailRests
<1> QED BY <1>1, <1>2

LEMMA AbandonRests ==
    ASSUME NEW x \in WorkerRecord, x.loading = 0,
           x.source # "none" \/ x.transport # "none" =>
               x.cont = Probed(x) /\ x.fixed = (x.media \in {"fixed", "station"}),
           Indefinite(x) => x.fixed,
           x.state = "Reconnecting" => x.outage = "waiting" /\ Remote(x)
    PROVE  LET y == AbandonAttempt(x)
           IN /\ x.attempt = "no" => Rests(y)
              /\ y \in WorkerRecord /\ SameLoad(x, y) /\ SameMedia(x, y)
              /\ y.pending = x.pending /\ y.attempt = x.attempt
              /\ Rests(Quietly(y)) /\ Quietly(y) \in WorkerRecord
              /\ SameLoad(x, Quietly(y)) /\ Quietly(y).pending = x.pending
              /\ SameMedia(x, Quietly(y))
<1> PICK y : y = AbandonAttempt(x)
  OBVIOUS
<1> PICK z : z = Quietly(y)
  OBVIOUS
<1>1. /\ y \in WorkerRecord
      /\ SameMedia(x, y) /\ SameLoad(x, y) /\ SameIntent(x, y)
      /\ y.source = IF Remote(x) THEN "none" ELSE x.source
      /\ y.state = x.state /\ y.transport = "none" /\ y.outage = x.outage
      /\ y.retired = TRUE
  BY AbandonIs
<1>2. /\ z \in WorkerRecord /\ SameMedia(y, z) /\ SameLoad(y, z) /\ SameFetch(y, z)
      /\ z.attempt = "no" /\ z.pending = y.pending
      /\ z.state = y.state /\ z.transport = y.transport /\ z.outage = y.outage
  BY <1>1 DEF Quietly, WorkerRecord, SameMedia, SameLoad, SameFetch
<1>3. Rests(z)
  BY <1>1, <1>2 DEF SameMedia, SameLoad, SameFetch, Remote, Probed, Indefinite, Rests
<1>4. x.attempt = "no" => Rests(y)
  BY <1>1 DEF SameMedia, SameLoad, SameIntent, Remote, Probed, Indefinite, Rests
<1> QED BY <1>1, <1>2, <1>3, <1>4 DEF SameLoad, SameMedia, SameIntent

(* An error of an open, as each handler reports it. *)
LEMMA RefusedOpen ==
    ASSUME EngInv, at = "open", NEW cause,
           Refused(IF Remote(w) THEN Retire(w) ELSE w, cause)
    PROVE  StepOK /\ OpensLive
<1>1. w \in WorkerRecord /\ OpenReady(job, w)
  BY AtOpen
<1> PICK x : x = IF Remote(w) THEN Retire(w) ELSE w
  OBVIOUS
<1>2. /\ x \in WorkerRecord /\ SameMedia(w, x) /\ SameLoad(w, x) /\ SameIntent(w, x)
      /\ x.source = w.source /\ x.state = w.state
      /\ x.transport = w.transport /\ x.outage = w.outage
      /\ Remote(w) => x.retired = TRUE
  BY <1>1, RetireIs DEF SameMedia, SameLoad, SameIntent
<1>3. OpenReady(job, x) /\ (Remote(x) => x.retired) /\ Refused(x, cause)
  BY <1>1, <1>2 DEF OpenReady, SameMedia, SameLoad, SameIntent, Remote, Probed, Indefinite
<1>4. CASE job \in {"retry", "recover"}
  <2> PICK b : b = IF job = "recover" THEN AbandonAttempt(x) ELSE x
    OBVIOUS
  <2>1. PICK y \in AttemptFails(b, cause) : Finish(y)
    BY <1>3, <1>4 DEF Refused
  <2>2. x.loading = 0 /\ x.attempt = "no" /\ Remote(x) /\ x.outage = "waiting"
        /\ x.state = "Reconnecting"
        /\ (x.source # "none" \/ x.transport # "none" =>
               x.cont = Probed(x) /\ x.fixed = (x.media \in {"fixed", "station"}))
        /\ (Indefinite(x) => x.fixed)
    BY <1>3, <1>4 DEF OpenReady
  <2>3. /\ b \in WorkerRecord /\ SameLoad(x, b) /\ b.pending = x.pending /\ b.attempt = "no"
        /\ Rests(b) /\ SameMedia(x, b)
    <3>1. CASE job = "recover"
      BY <1>2, <2>2, <3>1, AbandonRests
    <3>2. CASE job # "recover"
      BY <1>2, <1>3, <2>2, <3>2, OpenRests DEF SameLoad, SameMedia
    <3> QED BY <3>1, <3>2
  <2>4. b.loading = 0 /\ Remote(b)
    BY <2>2, <2>3 DEF Rests, SameMedia, Remote
  <2>5. Rests(y) /\ LoadStep(b, y) /\ y \in WorkerRecord /\ y.pending = b.pending
    BY <2>1, <2>3, <2>4, FailedAttemptRests DEF Rests
  <2>6. LoadStep(w, y) /\ y.pending = w.pending
    BY <1>2, <2>3, <2>5 DEF LoadStep, SameLoad, Concluded, SameIntent
  <2> QED BY <2>1, <2>5, <2>6, FinishStep, FinishLive
<1>5. CASE job = "seek"
  <2>1. Finish(x)
    BY <1>3, <1>5 DEF Refused
  <2>2. Rests(x)
    BY <1>2, <1>3, <1>5, OpenRests DEF OpenReady
  <2> QED BY <1>2, <2>1, <2>2, FinishStep, FinishLive DEF LoadStep, SameIntent
<1>6. CASE job \notin {"retry", "recover", "seek"}
  <2>1. Finish(FailWith(x))
    <3>1. job # "trial"
      BY <1>3 DEF OpenReady, Opens
    <3> QED BY <1>3, <1>6, <3>1 DEF Refused
  <2>2. x.state = "Failed" => Rests(x)
    BY <1>2, <1>3, OpenRests DEF OpenReady
  <2>3. /\ Rests(FailWith(x)) /\ LoadStep(x, FailWith(x)) /\ FailWith(x) \in WorkerRecord
        /\ FailWith(x).pending = x.pending
    BY <1>2, <1>3, <2>2, FailRests DEF OpenReady
  <2>4. LoadStep(w, FailWith(x)) /\ FailWith(x).pending = w.pending
    BY <1>2, <2>3 DEF LoadStep, SameLoad, Concluded, SameIntent
  <2> QED BY <2>1, <2>3, <2>4, FinishStep, FinishLive
<1> QED BY <1>4, <1>5, <1>6

LEMMA CancelledOpen ==
    ASSUME EngInv, at = "open", Remote(w), w.retired, Cancelled(w)
    PROVE  StepOK /\ OpensLive
<1>1. w \in WorkerRecord /\ OpenReady(job, w)
  BY AtOpen
<1>2. CASE job = "load"
  <2> PICK y : y = Conclude(w)
    OBVIOUS
  <2>1. /\ y \in WorkerRecord
        /\ SameMedia(w, y) /\ SameIntent(w, y) /\ SameFetch(w, y)
        /\ Concluded(w, y)
        /\ y.state = w.state /\ y.transport = w.transport /\ y.outage = w.outage
    BY <1>1, ConcludeIs
  <2>2. Rests(y)
    BY <1>1, <1>2, <2>1 DEF OpenReady, SameMedia, SameIntent, SameFetch, Concluded, Rests,
                            Remote, Indefinite
  <2>3. Finish(y)
    BY <1>2, <2>1 DEF Cancelled
  <2> QED BY <2>1, <2>2, <2>3, FinishStep, FinishLive DEF LoadStep, SameIntent
<1>3. CASE job = "recover"
  <2> PICK y : y = AbandonAttempt(w)
    OBVIOUS
  <2>1. w.loading = 0 /\ w.attempt = "no"
        /\ (w.source # "none" \/ w.transport # "none" =>
               w.cont = Probed(w) /\ w.fixed = (w.media \in {"fixed", "station"}))
        /\ (Indefinite(w) => w.fixed)
        /\ (w.state = "Reconnecting" => w.outage = "waiting" /\ Remote(w))
    BY <1>1, <1>3 DEF OpenReady
  <2>2. Rests(y) /\ y \in WorkerRecord /\ SameLoad(w, y) /\ y.pending = w.pending
    BY <1>1, <2>1, AbandonRests
  <2>3. Finish(y)
    BY <1>3, <2>2 DEF Cancelled
  <2> QED BY <2>2, <2>3, FinishStep, FinishLive DEF LoadStep
<1>4. CASE job \notin {"load", "recover"}
  <2>1. Finish(w)
    BY <1>4 DEF Cancelled
  <2>2. Rests(w)
    BY <1>1, <1>4, OpenRests DEF OpenReady
  <2> QED BY <1>1, <2>1, <2>2, FinishStep, FinishLive DEF LoadStep, SameLoad
<1> QED BY <1>2, <1>3, <1>4

LEMMA AdoptedIs ==
    ASSUME NEW x \in WorkerRecord
    PROVE  LET y == Adopted(x)
           IN /\ y \in WorkerRecord /\ SameLoad(x, y) /\ SameIntent(x, y)
              /\ y.media = x.media /\ y.source = "open" /\ y.cont = Probed(x)
              /\ y.fixed = (x.media \in {"fixed", "station"})
              /\ y.state = x.state /\ y.transport = x.transport /\ y.outage = x.outage
<1> DEFINE f == x.media \in {"fixed", "station"}
<1>1. f \in BOOLEAN /\ Probed(x) \in {"finite", "indefinite"}
  BY DEF Probed
<1>2. Adopted(x) = [x EXCEPT !.source = "open", !.cont = Probed(x), !.traits = TRUE,
                             !.fixed = f]
  BY DEF Adopted
<1> HIDE DEF f
<1>3. Adopted(x) \in WorkerRecord
  <2>1. [x EXCEPT !.source = "open", !.cont = Probed(x)] \in WorkerRecord
    BY ZenonT(60), <1>1 DEF WorkerRecord
  <2> DEFINE b == [x EXCEPT !.source = "open", !.cont = Probed(x)]
  <2>2. [b EXCEPT !.traits = TRUE] \in WorkerRecord
    BY ZenonT(60), <2>1 DEF WorkerRecord
  <2>3. Adopted(x) = [[b EXCEPT !.traits = TRUE] EXCEPT !.fixed = f]
    BY <1>2
  <2> HIDE DEF b
  <2>4. \A z \in WorkerRecord : [z EXCEPT !.fixed = f] \in WorkerRecord
    BY <1>1 DEF WorkerRecord
  <2> QED BY <2>2, <2>3, <2>4
<1>4. SameLoad(x, Adopted(x)) /\ SameIntent(x, Adopted(x))
  BY <1>2 DEF WorkerRecord, SameLoad, SameIntent
<1>5. /\ Adopted(x).media = x.media /\ Adopted(x).source = "open"
      /\ Adopted(x).cont = Probed(x) /\ Adopted(x).fixed = f
  BY <1>2 DEF WorkerRecord
<1>6. /\ Adopted(x).state = x.state /\ Adopted(x).transport = x.transport
      /\ Adopted(x).outage = x.outage
  BY <1>2 DEF WorkerRecord
<1> QED BY <1>3, <1>4, <1>5, <1>6 DEF f

LEMMA LoadedIs ==
    ASSUME NEW x \in WorkerRecord
    PROVE  LET y == Loaded(x)
           IN /\ y \in WorkerRecord
              /\ SameMedia(x, y) /\ SameIntent(x, y) /\ SameFetch(x, y)
              /\ Concluded(x, y)
              /\ y.state = x.state /\ y.transport = x.transport /\ y.outage = x.outage
<1> PICK c : c = Conclude(x)
  OBVIOUS
<1>1. /\ c \in WorkerRecord
      /\ SameMedia(x, c) /\ SameIntent(x, c) /\ SameFetch(x, c)
      /\ Concluded(x, c)
      /\ c.state = x.state /\ c.transport = x.transport /\ c.outage = x.outage
  BY ConcludeIs
<1> DEFINE y == [c EXCEPT !.adopted = x.loading]
<1>2. x.loading \in 0 .. MaxLoads
  BY DEF WorkerRecord
<1>3. y \in WorkerRecord /\ SameMedia(c, y) /\ SameIntent(c, y) /\ SameFetch(c, y)
  BY <1>1, <1>2 DEF WorkerRecord, SameMedia, SameIntent, SameFetch
<1>4. SameLoad(c, y) /\ y.state = c.state /\ y.transport = c.transport /\ y.outage = c.outage
  BY <1>1 DEF WorkerRecord, SameLoad
<1>5. Loaded(x) = y
  BY <1>1 DEF Loaded
<1> HIDE DEF y
<1> QED BY <1>1, <1>3, <1>4, <1>5
       DEF SameMedia, SameIntent, SameFetch, Concluded, SameLoad

(* What waits for the device: a landing that is done, or a rebuild. *)
LEMMA DeviceStep ==
    ASSUME EngInv, NEW y \in WorkerRecord, Go(job, "device", y), mending = FALSE,
           job \in {"load", "restore", "rejoin", "retry", "recover", "seek", "restart"},
           resume \in BOOLEAN,
           y.source # "none", y.cont = Probed(y),
           y.fixed = (y.media \in {"fixed", "station"}),
           y.attempt # "no" <=> job \in Attempts,
           job \in {"load", "rejoin", "retry"} => y.transport = "none",
           job = "load" => y.state = "Loading",
           y.loading = 0, y.media # "fixed" /\ y.transport # "none" => y.state \notin Closed,
           job = "seek" /\ y.media # "fixed" => y.state \notin Closed,
           y.state = "Reconnecting" <=> job \in {"retry", "recover"},
           y.state = "Reconnecting" => y.outage = "waiting" /\ Remote(y),
           LoadStep(w, y)
    PROVE  StepOK /\ OpensLive
<1>1. job' = job /\ at' = "device" /\ w' = y /\ mending' = FALSE /\ resume' \in BOOLEAN
  BY DEF Go, Stand
<1>2. PlaceOK(job, "device", FALSE) /\ LoadOK(job, "device", y)
  BY DEF PlaceOK, LoopPlaces, Opens, Lands, LoadOK
<1>3. SourceOK(job, "device", y)
  BY DEF SourceOK, Indefinite, Probed
<1>4. AttemptOK(job, "device", FALSE, y)
  BY DEF AttemptOK, Attempts
<1>5. StateOK(job, "device", y)
  BY DEF StateOK, Closed
<1> QED BY <1>1, <1>2, <1>3, <1>4, <1>5 DEF StepOK, Stands, IntentStep, OpensLive

LEMMA OpenedSteps ==
    ASSUME EngInv, at = "open", job # "seek", Opened(w)
    PROVE  StepOK /\ OpensLive
<1>1. w \in WorkerRecord /\ OpenReady(job, w) /\ mending = FALSE /\ resume \in BOOLEAN
  BY AtOpen
<1> PICK a : a = Adopted(w)
  OBVIOUS
<1>2. /\ a \in WorkerRecord /\ SameLoad(w, a) /\ SameIntent(w, a)
      /\ a.media = w.media /\ a.source = "open" /\ a.cont = Probed(a)
      /\ a.fixed = (a.media \in {"fixed", "station"})
      /\ a.state = w.state /\ a.transport = w.transport /\ a.outage = w.outage
  BY <1>1, AdoptedIs DEF Probed
<1>3. CASE job = "load" /\ Go("load", "device", Loaded(a))
  <2> PICK y : y = Loaded(a)
    OBVIOUS
  <2>1. /\ y \in WorkerRecord
        /\ SameMedia(a, y) /\ SameIntent(a, y) /\ SameFetch(a, y)
        /\ Concluded(a, y)
        /\ y.state = a.state /\ y.transport = a.transport /\ y.outage = a.outage
    BY <1>2, LoadedIs
  <2>2. LoadStep(w, y) /\ y.loading = 0 /\ y.attempt = "no"
    BY <1>1, <1>2, <2>1 DEF LoadStep, SameLoad, Concluded, OpenReady, SameIntent
  <2>3. /\ y.source # "none" /\ y.cont = Probed(y)
        /\ y.fixed = (y.media \in {"fixed", "station"})
        /\ y.state = "Loading" /\ y.transport = "none"
    BY <1>1, <1>2, <1>3, <2>1 DEF OpenReady, SameMedia, SameFetch, Probed
  <2> QED BY <1>1, <1>3, <2>1, <2>2, <2>3, DeviceStep DEF Attempts
<1>4. CASE job = "load" /\ Go("load", "land", a)
  <2>1. job' = "load" /\ at' = "land" /\ w' = a /\ mending' = FALSE /\ resume' \in BOOLEAN
    BY <1>1, <1>4 DEF Go, Stand
  <2>2. /\ a.loading # 0 /\ a.state = "Loading" /\ a.transport = "none" /\ a.attempt = "no"
    BY <1>1, <1>2, <1>4 DEF OpenReady, SameLoad, SameIntent
  <2>3. PlaceOK("load", "land", FALSE) /\ LoadOK("load", "land", a)
    BY <2>2 DEF PlaceOK, LoopPlaces, Opens, Lands, LoadOK
  <2>4. SourceOK("load", "land", a)
    BY <1>2 DEF SourceOK, Indefinite, Probed
  <2>5. AttemptOK("load", "land", FALSE, a)
    BY <2>2 DEF AttemptOK, Attempts
  <2>6. StateOK("load", "land", a)
    BY <2>2 DEF StateOK, Closed
  <2> QED BY <1>2, <2>1, <2>3, <2>4, <2>5, <2>6
         DEF StepOK, Stands, IntentStep, OpensLive, LoadStep
<1>5. CASE job \in {"rejoin", "retry"} /\ Finish(Retire(w))
  <2> PICK y : y = Retire(w)
    OBVIOUS
  <2>1. /\ y \in WorkerRecord /\ SameMedia(w, y) /\ SameLoad(w, y) /\ SameIntent(w, y)
        /\ y.retired = TRUE /\ y.source = w.source
        /\ y.state = w.state /\ y.transport = w.transport /\ y.outage = w.outage
    BY <1>1, RetireIs
  <2>2. OpenReady(job, y) /\ y.loading = 0
    BY <1>1, <1>5, <2>1
       DEF OpenReady, SameMedia, SameLoad, SameIntent, Remote, Probed, Indefinite
  <2>3. Rests(y)
    BY <2>1, <2>2, OpenRests
  <2> QED BY <1>5, <2>1, <2>3, FinishStep, FinishLive DEF LoadStep, SameIntent
<1>6. CASE job \in {"rejoin", "retry"} /\ Go(job, "device", [Teardown(a) EXCEPT !.attempt = "ok"])
  <2> PICK t : t = Teardown(a)
    OBVIOUS
  <2>1. /\ t \in WorkerRecord /\ SameMedia(a, t) /\ SameLoad(a, t) /\ SameIntent(a, t)
        /\ SameFetch(a, t)
        /\ t.state = a.state /\ t.transport = "none" /\ t.outage = a.outage
    BY <1>2, TeardownIs
  <2> DEFINE y == [t EXCEPT !.attempt = "ok"]
  <2>2. /\ y \in WorkerRecord /\ SameMedia(t, y) /\ SameLoad(t, y) /\ SameFetch(t, y)
        /\ y.attempt = "ok" /\ y.pending = t.pending
        /\ y.state = t.state /\ y.transport = t.transport /\ y.outage = t.outage
    BY <2>1 DEF WorkerRecord, SameMedia, SameLoad, SameFetch
  <2>3. Go(job, "device", y)
    BY <1>6, <2>1
  <2> HIDE DEF y
  <2>4. LoadStep(w, y) /\ y.loading = 0
    BY <1>1, <1>2, <1>6, <2>1, <2>2 DEF LoadStep, SameLoad, OpenReady
  <2>5. /\ y.source # "none" /\ y.cont = Probed(y)
        /\ y.fixed = (y.media \in {"fixed", "station"})
        /\ y.state = w.state /\ y.outage = w.outage /\ y.media = w.media
    BY <1>2, <2>1, <2>2 DEF SameMedia, SameFetch, Probed
  <2>6. /\ y.state = "Reconnecting" <=> job \in {"retry", "recover"}
        /\ y.state = "Reconnecting" => y.outage = "waiting" /\ Remote(y)
    BY <1>1, <2>5 DEF OpenReady, Remote
  <2> QED BY <1>1, <1>6, <2>1, <2>2, <2>3, <2>4, <2>5, <2>6, DeviceStep DEF Attempts
<1>7. CASE job = "restart" /\ Go("restart", "device", [CapturePosition(a) EXCEPT !.pending = "none"])
  <2> PICK t : t = CapturePosition(a)
    OBVIOUS
  <2>1. /\ t \in WorkerRecord /\ SameMedia(a, t) /\ SameLoad(a, t) /\ SameIntent(a, t)
        /\ SameFetch(a, t) /\ t.state = a.state /\ t.outage = a.outage
        /\ t.transport = "none" <=> a.transport = "none"
    BY <1>2, CaptureIs
  <2> DEFINE y == [t EXCEPT !.pending = "none"]
  <2>2. /\ y \in WorkerRecord /\ SameMedia(t, y) /\ SameLoad(t, y) /\ SameFetch(t, y)
        /\ y.attempt = t.attempt
        /\ y.state = t.state /\ y.transport = t.transport /\ y.outage = t.outage
    BY <2>1 DEF WorkerRecord, SameMedia, SameLoad, SameFetch
  <2>3. Go(job, "device", y)
    BY <1>7, <2>1
  <2> HIDE DEF y
  <2>4. LoadStep(w, y) /\ y.loading = 0 /\ y.attempt = "no"
    BY <1>1, <1>2, <1>7, <2>1, <2>2 DEF LoadStep, SameLoad, OpenReady, SameIntent
  <2>5. /\ y.source # "none" /\ y.cont = Probed(y)
        /\ y.fixed = (y.media \in {"fixed", "station"})
        /\ y.state = w.state /\ y.outage = w.outage /\ y.media = w.media
        /\ y.transport = "none" <=> w.transport = "none"
    BY <1>2, <2>1, <2>2 DEF SameMedia, SameFetch, Probed
  <2>6. /\ y.state # "Reconnecting"
        /\ y.media # "fixed" /\ y.transport # "none" => y.state \notin Closed
    BY <1>1, <1>7, <2>5 DEF OpenReady
  <2> QED BY <1>1, <1>7, <2>2, <2>3, <2>4, <2>5, <2>6, DeviceStep DEF Attempts
<1>8. CASE job \in {"restore", "recover"} /\ Go(job, "land", CapturePosition(a))
  <2> PICK y : y = CapturePosition(a)
    OBVIOUS
  <2>1. /\ y \in WorkerRecord /\ SameMedia(a, y) /\ SameLoad(a, y) /\ SameIntent(a, y)
        /\ SameFetch(a, y) /\ y.state = a.state /\ y.outage = a.outage
        /\ y.transport = "none" <=> a.transport = "none"
    BY <1>2, CaptureIs
  <2>2. job' = job /\ at' = "land" /\ w' = y /\ mending' = FALSE /\ resume' \in BOOLEAN
    BY <1>1, <1>8, <2>1 DEF Go, Stand
  <2>3. /\ y.attempt = "no" /\ y.loading = 0 /\ LoadStep(w, y) /\ y.pending = w.pending
    BY <1>1, <1>2, <1>8, <2>1 DEF OpenReady, SameLoad, SameIntent, LoadStep
  <2>4. /\ y.source # "none" /\ y.cont = Probed(y)
        /\ y.fixed = (y.media \in {"fixed", "station"})
        /\ y.state = w.state /\ y.outage = w.outage /\ y.media = w.media
        /\ y.transport = "none" <=> w.transport = "none"
    BY <1>2, <2>1 DEF SameMedia, SameFetch, Probed
  <2>5. PlaceOK(job, "land", FALSE) /\ LoadOK(job, "land", y)
    BY <1>8, <2>3 DEF PlaceOK, LoopPlaces, Opens, Lands, LoadOK
  <2>6. SourceOK(job, "land", y) /\ AttemptOK(job, "land", FALSE, y)
    BY <1>8, <2>3, <2>4 DEF SourceOK, AttemptOK, Attempts, Indefinite, Probed
  <2>7. StateOK(job, "land", y)
    BY <1>1, <1>8, <2>4 DEF StateOK, OpenReady, Remote
  <2> QED BY <2>1, <2>2, <2>3, <2>5, <2>6, <2>7
         DEF StepOK, Stands, IntentStep, OpensLive
<1>9. job \in Opens
  BY <1>1 DEF OpenReady
<1>10. \/ job = "load" /\ (Go("load", "device", Loaded(a)) \/ Go("load", "land", a))
       \/ /\ job \in {"rejoin", "retry"}
          /\ \/ Finish(Retire(w))
             \/ Go(job, "device", [Teardown(a) EXCEPT !.attempt = "ok"])
       \/ /\ job = "restart"
          /\ Go("restart", "device", [CapturePosition(a) EXCEPT !.pending = "none"])
       \/ job \in {"restore", "recover"} /\ Go(job, "land", CapturePosition(a))
  <2>1. CASE job = "load"
    BY <2>1 DEF Opened
  <2>2. CASE job \in {"rejoin", "retry"}
    BY <2>2 DEF Opened
  <2>3. CASE job = "restart"
    BY <2>3 DEF Opened
  <2>4. CASE job \in {"restore", "recover"}
    BY <2>4 DEF Opened
  <2> QED BY <1>9, <2>1, <2>2, <2>3, <2>4 DEF Opens
<1> QED BY <1>3, <1>4, <1>5, <1>6, <1>7, <1>8, <1>10

LEMMA OpenEndsSteps ==
    ASSUME EngInv, OpenEnds
    PROVE  StepOK /\ OpensLive
<1>1. at = "open" /\ w \in WorkerRecord /\ OpenReady(job, w) /\ mending = FALSE
      /\ resume \in BOOLEAN
  BY AtOpen DEF OpenEnds
<1>2. CASE Remote(w) /\ w.retired
  BY <1>1, <1>2, CancelledOpen DEF OpenEnds
<1>3. CASE ~(Remote(w) /\ w.retired) /\ job = "seek" /\ SeekOpened(Adopted(w))
  <2> PICK a : a = Adopted(w)
    OBVIOUS
  <2>1. /\ a \in WorkerRecord /\ SameLoad(w, a) /\ SameIntent(w, a)
        /\ a.media = w.media /\ a.source = "open" /\ a.cont = Probed(a)
        /\ a.fixed = (a.media \in {"fixed", "station"})
        /\ a.state = w.state /\ a.transport = w.transport
    BY <1>1, AdoptedIs DEF Probed
  <2>2. Rests(a) /\ a.state # "Failed"
    BY <1>1, <1>3, <2>1 DEF OpenReady, Rests, SameLoad, SameIntent, Indefinite, Probed
  <2> QED BY <1>1, <1>3, <2>1, <2>2, SeekOpenedSteps DEF LoadStep, SameIntent
<1>4. CASE ~(Remote(w) /\ w.retired) /\ job # "seek" /\ Opened(w)
  BY <1>1, <1>4, OpenedSteps
<1>5. CASE \E cause \in {"retry", "fatal"} :
               Refused(IF Remote(w) THEN Retire(w) ELSE w, cause)
  BY <1>1, <1>5, RefusedOpen
<1> QED BY <1>2, <1>3, <1>4, <1>5 DEF OpenEnds

-----------------------------------------------------------------------------
(* Landings. *)

LandReady(j, m, x) ==
    /\ j \in Lands /\ m \in BOOLEAN /\ x.source # "none" /\ x.cont = Probed(x)
    /\ x.fixed = (x.media \in {"fixed", "station"})
    /\ x.attempt # "no" <=> j \in Attempts /\ m
    /\ m => x.transport = "none" /\ j \notin {"load", "trial"}
    /\ j \in {"rebuild", "pausing"} => m
    /\ j = "load" => x.transport = "none" /\ x.state = "Loading"
    /\ x.loading # 0 <=> j = "load"
    /\ x.transport # "none" /\ x.media # "fixed" => x.state \notin Closed
    /\ j \in {"seek", "undo", "reject", "rebuild", "pausing"} /\ x.media # "fixed"
         => x.state \notin Closed
    /\ x.state = "Reconnecting" <=> j = "recover"
    /\ x.state = "Reconnecting" => x.outage = "waiting" /\ Remote(x)

LEMMA AtLand ==
    ASSUME EngInv, at \in {"land", "seek"}
    PROVE  w \in WorkerRecord /\ LandReady(job, mending, w) /\ resume \in BOOLEAN
<1>1. w \in WorkerRecord /\ resume \in BOOLEAN /\ Stands(job, at, mending, w)
  BY DEF EngInv, TypeOK
<1>2. /\ job \in Lands /\ mending \in BOOLEAN
      /\ mending => job \notin {"load", "trial"}
      /\ job \in {"rebuild", "pausing"} => mending
  BY <1>1 DEF Stands, PlaceOK
<1>3. w.source # "none" /\ w.cont = Probed(w) /\ w.fixed = (w.media \in {"fixed", "station"})
  BY <1>1 DEF Stands, SourceOK
<1>4. /\ w.attempt # "no" <=> job \in Attempts /\ mending
      /\ mending => w.transport = "none"
      /\ job = "load" => w.transport = "none"
  BY <1>1 DEF Stands, AttemptOK
<1>5. /\ w.transport # "none" /\ w.media # "fixed" => w.state \notin Closed
      /\ job \in {"seek", "undo", "reject", "rebuild", "pausing"} /\ w.media # "fixed"
           => w.state \notin Closed
      /\ w.state = "Reconnecting" <=> job = "recover"
      /\ w.state = "Reconnecting" => w.outage = "waiting" /\ Remote(w)
  BY <1>1, <1>2 DEF Stands, StateOK, Lands
<1>6. (w.loading # 0 <=> job = "load") /\ (job = "load" => w.state = "Loading")
  BY <1>1 DEF Stands, LoadOK
<1> QED BY <1>1, <1>2, <1>3, <1>4, <1>5, <1>6 DEF LandReady

LEMMA LandReadyStands ==
    ASSUME NEW x \in WorkerRecord, NEW j, NEW m, LandReady(j, m, x),
           NEW a \in {"land", "seek"}
    PROVE  Stands(j, a, m, x)
<1>1. PlaceOK(j, a, m) /\ LoadOK(j, a, x)
  BY DEF PlaceOK, LoopPlaces, Opens, Lands, LoadOK, LandReady
<1>2. SourceOK(j, a, x) /\ AttemptOK(j, a, m, x)
  BY DEF SourceOK, AttemptOK, Attempts, LandReady, Lands, Indefinite, Probed
<1>3. StateOK(j, a, x)
  BY DEF StateOK, LandReady, Closed, Lands
<1> QED BY <1>1, <1>2, <1>3 DEF Stands

(* Ending a generation, or finding a source dead, does not move a landing. *)
LEMMA LandReadyKept ==
    ASSUME NEW x \in WorkerRecord, NEW j, NEW m, LandReady(j, m, x), NEW y \in WorkerRecord,
           SameMedia(x, y), SameLoad(x, y), y.attempt = x.attempt, y.source # "none",
           y.state = x.state, y.transport = x.transport, y.outage = x.outage
    PROVE  LandReady(j, m, y)
BY DEF LandReady, SameMedia, SameLoad, Probed, Remote

LEMMA MendedStep ==
    ASSUME NEW y \in WorkerRecord, LandReady(job, mending, y), resume \in BOOLEAN,
           mending \/ job \in {"undo", "reject"}, Go(job, "device", y), LoadStep(w, y)
    PROVE  StepOK /\ OpensLive
<1>1. job' = job /\ at' = "device" /\ w' = y /\ mending' = mending /\ resume' \in BOOLEAN
  BY DEF Go, Stand
<1>2. PlaceOK(job, "device", mending) /\ LoadOK(job, "device", y)
  BY DEF PlaceOK, LoopPlaces, Opens, Lands, LoadOK, LandReady
<1>3. SourceOK(job, "device", y)
  BY DEF SourceOK, LandReady, Indefinite, Probed
<1>4. AttemptOK(job, "device", mending, y)
  BY DEF AttemptOK, Attempts, LandReady, Lands
<1>5. StateOK(job, "device", y)
  BY DEF StateOK, LandReady, Closed, Lands
<1> QED BY <1>1, <1>2, <1>3, <1>4, <1>5 DEF StepOK, Stands, IntentStep, OpensLive, LandReady

(* A landing that is over and leaves the worker at rest. *)
LEMMA LandRests ==
    ASSUME NEW j, NEW m, NEW x \in WorkerRecord, LandReady(j, m, x), x.attempt = "no",
           j \notin {"load", "recover"}
    PROVE  Rests(x)
BY DEF LandReady, Rests, Indefinite, Probed, Closed

LEMMA LandedSteps ==
    ASSUME EngInv, at \in {"land", "seek"}, Landed(w)
    PROVE  StepOK /\ OpensLive
<1>1. w \in WorkerRecord /\ LandReady(job, mending, w) /\ resume \in BOOLEAN
      /\ mending \in BOOLEAN /\ job \in Lands
  BY AtLand DEF LandReady
<1>2. CASE mending \/ job \in {"undo", "reject"}
  <2>1. Go(job, "device", w)
    BY <1>2 DEF Landed
  <2> QED BY <1>1, <1>2, <2>1, MendedStep DEF LoadStep, SameLoad
<1>3. CASE ~mending /\ job = "trial"
  <2> DEFINE y == [w EXCEPT !.pending = "seek"]
  <2>1. Finish(y)
    BY <1>3 DEF Landed
  <2>2. /\ y \in WorkerRecord /\ SameLoad(w, y) /\ y.pending = "seek" /\ SameMedia(w, y)
        /\ SameFetch(w, y) /\ y.attempt = w.attempt /\ y.state = w.state
        /\ y.transport = w.transport /\ y.outage = w.outage
    BY <1>1 DEF WorkerRecord, SameLoad, SameMedia, SameFetch
  <2> HIDE DEF y
  <2>3. LandReady(job, mending, y)
    BY <1>1, <2>2, LandReadyKept DEF SameFetch, LandReady
  <2>4. Rests(y)
    BY <1>3, <2>2, <2>3, LandRests DEF LandReady, Attempts
  <2> QED BY <2>1, <2>2, <2>4, FinishStep, FinishLive DEF LoadStep
<1>4. CASE ~mending /\ job = "load"
  <2> PICK y : y = Loaded(w)
    OBVIOUS
  <2>1. /\ y \in WorkerRecord
        /\ SameMedia(w, y) /\ SameIntent(w, y) /\ SameFetch(w, y)
        /\ Concluded(w, y)
        /\ y.state = w.state /\ y.transport = w.transport /\ y.outage = w.outage
    BY <1>1, LoadedIs
  <2>2. Go(job, "device", y)
    BY <1>4, <2>1 DEF Landed
  <2>3. LoadStep(w, y) /\ y.loading = 0 /\ y.attempt = "no"
    BY <1>1, <1>4, <2>1 DEF LoadStep, Concluded, LandReady, SameIntent, Attempts
  <2>4. /\ y.source # "none" /\ y.cont = Probed(y)
        /\ y.fixed = (y.media \in {"fixed", "station"})
        /\ y.state = "Loading" /\ y.transport = "none"
    BY <1>1, <1>4, <2>1 DEF LandReady, SameMedia, SameFetch, Probed
  <2> QED BY <1>1, <1>4, <2>1, <2>2, <2>3, <2>4, DeviceStep DEF Attempts
<1>5. CASE ~mending /\ job \in {"restore", "recover"}
  <2> DEFINE y == [w EXCEPT !.attempt = "ok"]
  <2>1. Go(job, "device", y)
    BY <1>5 DEF Landed
  <2>2. /\ y \in WorkerRecord /\ SameLoad(w, y) /\ y.pending = w.pending /\ SameMedia(w, y)
        /\ SameFetch(w, y) /\ y.attempt = "ok" /\ y.state = w.state
        /\ y.transport = w.transport /\ y.outage = w.outage
    BY <1>1 DEF WorkerRecord, SameLoad, SameMedia, SameFetch
  <2> HIDE DEF y
  <2>3. LoadStep(w, y) /\ y.loading = 0
    BY <1>1, <1>5, <2>2 DEF LoadStep, LandReady, SameLoad
  <2>4. /\ y.source # "none" /\ y.cont = Probed(y)
        /\ y.fixed = (y.media \in {"fixed", "station"})
        /\ y.media # "fixed" /\ y.transport # "none" => y.state \notin Closed
        /\ y.state = "Reconnecting" <=> job = "recover"
        /\ y.state = "Reconnecting" => y.outage = "waiting" /\ Remote(y)
    BY <1>1, <1>5, <2>2 DEF LandReady, SameMedia, SameFetch, Probed, Remote
  <2> QED BY <1>1, <1>5, <2>1, <2>2, <2>3, <2>4, DeviceStep DEF Attempts
<1>6. CASE ~mending /\ job \in {"seek", "restart"}
  <2> DEFINE y == [w EXCEPT !.pending = "none"]
  <2>1. Go(job, "device", y)
    BY <1>6 DEF Landed
  <2>2. /\ y \in WorkerRecord /\ SameLoad(w, y) /\ SameMedia(w, y)
        /\ SameFetch(w, y) /\ y.attempt = w.attempt /\ y.state = w.state
        /\ y.transport = w.transport /\ y.outage = w.outage
    BY <1>1 DEF WorkerRecord, SameLoad, SameMedia, SameFetch
  <2> HIDE DEF y
  <2>3. LoadStep(w, y) /\ y.loading = 0 /\ y.attempt = "no"
    BY <1>1, <1>6, <2>2 DEF LoadStep, LandReady, SameLoad, Attempts
  <2>4. /\ y.source # "none" /\ y.cont = Probed(y)
        /\ y.fixed = (y.media \in {"fixed", "station"})
        /\ y.media # "fixed" /\ y.transport # "none" => y.state \notin Closed
        /\ job = "seek" /\ y.media # "fixed" => y.state \notin Closed
        /\ y.state # "Reconnecting"
    BY <1>1, <1>6, <2>2 DEF LandReady, SameMedia, SameFetch, Probed, Remote
  <2> QED BY <1>1, <1>6, <2>1, <2>2, <2>3, <2>4, DeviceStep DEF Attempts
<1>7. \/ mending
      \/ job \in {"undo", "reject", "trial", "load", "restore", "recover", "seek", "restart"}
  BY <1>1 DEF LandReady, Lands
<1> QED BY <1>1, <1>2, <1>3, <1>4, <1>5, <1>6, <1>7

LEMMA StartLandingSteps ==
    ASSUME EngInv, StartLanding
    PROVE  StepOK /\ OpensLive
<1>1. w \in WorkerRecord /\ LandReady(job, mending, w) /\ resume \in BOOLEAN /\ at = "land"
  BY AtLand DEF StartLanding
<1>2. CASE Landed(w)
  BY <1>1, <1>2, LandedSteps
<1>3. CASE Go(job, "seek", w) \/ Go(job, "seek", Begin(w))
  <2>1. PICK y \in {w, Begin(w)} : Go(job, "seek", y)
    BY <1>3
  <2>2. /\ y \in WorkerRecord /\ SameMedia(w, y) /\ SameLoad(w, y) /\ SameIntent(w, y)
        /\ y.source = w.source
        /\ y.state = w.state /\ y.transport = w.transport /\ y.outage = w.outage
    BY <1>1, BeginIs DEF SameMedia, SameLoad, SameIntent
  <2>3. LandReady(job, mending, y)
    BY <1>1, <2>2, LandReadyKept DEF SameIntent, LandReady
  <2>4. Stands(job, "seek", mending, y)
    BY <2>2, <2>3, LandReadyStands
  <2>5. job' = job /\ at' = "seek" /\ w' = y /\ mending' = mending /\ resume' = resume
    BY <2>1 DEF Go, Stand
  <2> QED BY <1>1, <2>2, <2>4, <2>5 DEF StepOK, IntentStep, OpensLive, LoadStep, SameIntent
<1> QED BY <1>2, <1>3 DEF StartLanding

LEMMA SeekLandsSteps ==
    ASSUME EngInv, SeekLands
    PROVE  StepOK /\ OpensLive
BY LandedSteps DEF SeekLands

(* A landing that goes on as another one. *)
LEMMA LandsAs ==
    ASSUME NEW x \in WorkerRecord, LandReady("seek", FALSE, x), job = "seek",
           mending = FALSE, resume \in BOOLEAN, NEW j \in {"undo", "reject"},
           Go(j, "land", x), LoadStep(w, x), x.pending = w.pending
    PROVE  StepOK /\ OpensLive
<1>1. LandReady(j, FALSE, x)
  BY DEF LandReady, Lands, Attempts
<1>2. Stands(j, "land", FALSE, x)
  BY <1>1, LandReadyStands
<1>3. job' = j /\ at' = "land" /\ w' = x /\ mending' = FALSE /\ resume' = resume
  BY DEF Go, Stand
<1> QED BY <1>2, <1>3 DEF StepOK, IntentStep, OpensLive

LEMMA LandCancelledSteps ==
    ASSUME EngInv, at = "seek", NEW x \in WorkerRecord, LandReady(job, mending, x),
           SameLoad(w, x), x.pending = w.pending, LandCancelled(x)
    PROVE  StepOK /\ OpensLive
<1>1. w \in WorkerRecord /\ resume \in BOOLEAN /\ mending \in BOOLEAN /\ job \in Lands
  BY AtLand DEF LandReady
<1>2. CASE mending /\ job \in {"restore", "recover"}
  <2> PICK y : y = Quietly(AbandonAttempt(x))
    OBVIOUS
  <2>1. Rests(y) /\ y \in WorkerRecord /\ SameLoad(x, y) /\ y.pending = x.pending
    BY <1>2, AbandonRests DEF LandReady, Indefinite, Probed
  <2>2. Finish(y)
    BY <1>2, <2>1 DEF LandCancelled
  <2>3. LoadStep(w, y)
    BY <2>1 DEF LoadStep, SameLoad
  <2> QED BY <2>1, <2>2, <2>3, FinishStep, FinishLive
<1>3. CASE ~mending /\ job = "seek"
  <2>1. Go("undo", "land", x)
    BY <1>3 DEF LandCancelled
  <2> QED BY <1>1, <1>3, <2>1, LandsAs DEF LoadStep
<1>4. CASE ~mending /\ job = "load"
  <2> PICK b : b = CloseSource(x)
    OBVIOUS
  <2>1. /\ b \in WorkerRecord
        /\ SameMedia(x, b) /\ SameLoad(x, b) /\ SameIntent(x, b)
        /\ b.source = "none" /\ b.state = x.state
        /\ b.transport = x.transport /\ b.outage = x.outage
        /\ Remote(x) => b.retired = TRUE
    BY CloseSourceIs DEF LandReady
  <2> PICK y : y = Conclude(b)
    OBVIOUS
  <2>2. /\ y \in WorkerRecord
        /\ SameMedia(b, y) /\ SameIntent(b, y) /\ SameFetch(b, y)
        /\ Concluded(b, y)
        /\ y.state = b.state /\ y.transport = b.transport /\ y.outage = b.outage
    BY <2>1, ConcludeIs
  <2>3. Rests(y)
    <3>1. /\ y.source = "none" /\ y.transport = "none" /\ y.state = "Loading"
          /\ y.attempt = "no" /\ y.loading = 0
      BY <1>4, <2>1, <2>2 DEF LandReady, SameIntent, SameFetch, Concluded, Attempts
    <3>2. (Indefinite(y) => y.fixed) /\ (Remote(y) => y.retired)
      BY ZenonT(60), <1>4, <2>1, <2>2 DEF LandReady, SameMedia, SameFetch, Indefinite, Probed, Remote
    <3> QED BY <3>1, <3>2 DEF Rests
  <2>4. Finish(y)
    BY <1>4, <2>1, <2>2 DEF LandCancelled, Cancelled
  <2>5. LoadStep(w, y) /\ y.pending = w.pending
    BY <2>1, <2>2 DEF LoadStep, SameLoad, Concluded, SameIntent
  <2> QED BY <2>2, <2>3, <2>4, <2>5, FinishStep, FinishLive
<1>5. CASE ~mending /\ job = "recover"
  <2> PICK y : y = AbandonAttempt(x)
    OBVIOUS
  <2>1. Rests(y) /\ y \in WorkerRecord /\ SameLoad(x, y) /\ y.pending = x.pending
    BY <1>5, AbandonRests DEF LandReady, Indefinite, Probed
  <2>2. Finish(y)
    BY <1>5, <2>1 DEF LandCancelled, Cancelled
  <2>3. LoadStep(w, y)
    BY <2>1 DEF LoadStep, SameLoad
  <2> QED BY <2>1, <2>2, <2>3, FinishStep, FinishLive
<1>6. CASE /\ ~(mending /\ job \in {"restore", "recover"})
           /\ ~(~mending /\ job \in {"seek", "load", "recover"})
  <2>1. job \notin {"load", "recover"} /\ x.attempt = "no"
    BY <1>1, <1>6 DEF LandReady, Attempts, Lands
  <2>2. Finish(x)
    BY <1>6, <2>1 DEF LandCancelled, Cancelled
  <2>3. Rests(x)
    BY <2>1, LandRests
  <2> QED BY <2>2, <2>3, FinishStep, FinishLive DEF LoadStep
<1> QED BY <1>1, <1>2, <1>3, <1>4, <1>5, <1>6

LEMMA SeekCancelledSteps ==
    ASSUME EngInv, SeekCancelled
    PROVE  StepOK /\ OpensLive
<1>1. w \in WorkerRecord /\ LandReady(job, mending, w) /\ at = "seek"
  BY AtLand DEF SeekCancelled
<1>2. CASE LandCancelled(w)
  BY <1>1, <1>2, LandCancelledSteps DEF SameLoad
<1>3. CASE LandCancelled([w EXCEPT !.source = "dead"])
  <2> DEFINE x == [w EXCEPT !.source = "dead"]
  <2>1. /\ x \in WorkerRecord /\ SameMedia(w, x) /\ SameLoad(w, x) /\ SameIntent(w, x)
        /\ x.source = "dead"
        /\ x.state = w.state /\ x.transport = w.transport /\ x.outage = w.outage
    BY <1>1 DEF WorkerRecord, SameMedia, SameLoad, SameIntent
  <2>2. LandCancelled(x)
    BY <1>3
  <2> HIDE DEF x
  <2>3. LandReady(job, mending, x)
    BY <1>1, <2>1, LandReadyKept DEF SameIntent
  <2> QED BY <1>1, <2>1, <2>2, <2>3, LandCancelledSteps DEF SameIntent
<1> QED BY <1>2, <1>3 DEF SeekCancelled

LEMMA SeekFailsSteps ==
    ASSUME EngInv, SeekFails
    PROVE  StepOK /\ OpensLive
<1>1. /\ w \in WorkerRecord /\ LandReady(job, mending, w) /\ at = "seek"
      /\ resume \in BOOLEAN /\ mending \in BOOLEAN /\ job \in Lands
  BY AtLand DEF SeekFails, LandReady
<1>2. PICK x \in {w, Retire(w)}, cause \in {"retry", "fatal"} : LandFailed(x, cause)
  BY DEF SeekFails
<1>3. /\ x \in WorkerRecord /\ SameMedia(w, x) /\ SameLoad(w, x) /\ SameIntent(w, x)
      /\ x.source = w.source
      /\ x.state = w.state /\ x.transport = w.transport /\ x.outage = w.outage
  BY <1>1, <1>2, RetireIs DEF SameMedia, SameLoad, SameIntent
<1>4. LandReady(job, mending, x)
  BY <1>1, <1>3, LandReadyKept DEF SameIntent, LandReady
<1>5. x.pending = w.pending
  BY <1>3 DEF SameIntent
<1>6. CASE mending
  <2> DEFINE q == [x EXCEPT !.attempt = "no"]
  <2>1. /\ q \in WorkerRecord /\ SameMedia(x, q) /\ SameLoad(x, q) /\ SameFetch(x, q)
        /\ q.attempt = "no" /\ q.pending = x.pending
        /\ q.state = x.state /\ q.transport = x.transport /\ q.outage = x.outage
    BY <1>3 DEF WorkerRecord, SameMedia, SameLoad, SameFetch
  <2>2. Finish(FailWith(q))
    BY <1>2, <1>6 DEF LandFailed, Quietly
  <2> HIDE DEF q
  <2>3. /\ q.source # "none" \/ q.transport # "none" =>
               q.cont = Probed(q) /\ q.fixed = (q.media \in {"fixed", "station"})
        /\ Indefinite(q) => q.fixed
        /\ q.state = "Failed" => Rests(q)
    BY <1>4, <1>6, <2>1
       DEF LandReady, SameMedia, SameLoad, SameFetch, Probed, Indefinite, Rests, Remote
  <2>4. /\ Rests(FailWith(q)) /\ LoadStep(q, FailWith(q)) /\ FailWith(q) \in WorkerRecord
        /\ FailWith(q).pending = q.pending
    BY <2>1, <2>3, FailRests
  <2>5. LoadStep(w, FailWith(q))
    BY <1>3, <2>1, <2>4 DEF LoadStep, SameLoad, Concluded
  <2> QED BY <1>5, <2>1, <2>2, <2>4, <2>5, FinishStep, FinishLive
<1>7. CASE ~mending /\ job = "seek"
  <2>1. Go("reject", "land", x)
    BY <1>2, <1>7 DEF LandFailed
  <2> QED BY <1>1, <1>3, <1>4, <1>5, <1>7, <2>1, LandsAs DEF LoadStep
<1>8. CASE ~mending /\ job = "load"
  <2> PICK b : b = CloseSource(x)
    OBVIOUS
  <2>1. /\ b \in WorkerRecord
        /\ SameMedia(x, b) /\ SameLoad(x, b) /\ SameIntent(x, b)
        /\ b.source = "none" /\ b.state = x.state /\ b.transport = x.transport
    BY <1>3, CloseSourceIs
  <2>2. Finish(FailWith(b))
    BY <1>2, <1>8, <2>1 DEF LandFailed, Refused
  <2>3. b.attempt = "no" /\ b.state = "Loading" /\ b.transport = "none"
        /\ (Indefinite(b) => b.fixed)
    BY <1>4, <1>8, <2>1
       DEF LandReady, SameMedia, SameIntent, Attempts, Indefinite, Probed
  <2>4. /\ Rests(FailWith(b)) /\ LoadStep(b, FailWith(b)) /\ FailWith(b) \in WorkerRecord
        /\ FailWith(b).pending = b.pending
    BY <2>1, <2>3, FailRests
  <2>5. LoadStep(w, FailWith(b)) /\ FailWith(b).pending = w.pending
    BY <1>3, <1>5, <2>1, <2>4 DEF LoadStep, SameLoad, Concluded, SameIntent
  <2> QED BY <2>2, <2>4, <2>5, FinishStep, FinishLive
<1>9. CASE ~mending /\ job \in {"undo", "restart", "trial"}
  <2>1. Finish(x)
    BY <1>2, <1>9 DEF LandFailed, Refused
  <2>2. Rests(x)
    BY <1>3, <1>4, <1>9, LandRests DEF LandReady, Attempts
  <2> QED BY <1>3, <1>5, <2>1, <2>2, FinishStep, FinishLive DEF LoadStep
<1>10. CASE ~mending /\ job = "recover"
  <2> PICK b : b = AbandonAttempt(x)
    OBVIOUS
  <2>1. PICK y \in AttemptFails(b, cause) : Finish(y)
    BY <1>2, <1>10 DEF LandFailed, Refused
  <2>2. /\ Rests(b) /\ b \in WorkerRecord /\ SameLoad(x, b) /\ SameMedia(x, b)
        /\ b.pending = x.pending
    BY <1>3, <1>4, <1>10, AbandonRests DEF LandReady, Indefinite, Probed, Attempts
  <2>3. Remote(b)
    BY <1>4, <1>10, <2>2 DEF LandReady, SameMedia, Remote
  <2>4. Rests(y) /\ LoadStep(b, y) /\ y \in WorkerRecord /\ y.pending = b.pending
    BY <2>1, <2>2, <2>3, FailedAttemptRests DEF Rests
  <2>5. LoadStep(w, y) /\ y.pending = w.pending
    BY <1>3, <1>5, <2>2, <2>4 DEF LoadStep, SameLoad, Concluded
  <2> QED BY <2>1, <2>4, <2>5, FinishStep, FinishLive
<1>11. CASE ~mending /\ job \in {"restore", "reject"}
  <2>1. Finish(FailWith(x))
    BY <1>2, <1>11 DEF LandFailed, Refused
  <2>2. Rests(x)
    BY <1>3, <1>4, <1>11, LandRests DEF LandReady, Attempts
  <2>3. /\ Rests(FailWith(x)) /\ LoadStep(x, FailWith(x)) /\ FailWith(x) \in WorkerRecord
        /\ FailWith(x).pending = x.pending
    BY <1>3, <2>2, RestsFail
  <2>4. LoadStep(w, FailWith(x))
    BY <1>3, <2>3 DEF LoadStep, SameLoad, Concluded
  <2> QED BY <1>5, <2>1, <2>3, <2>4, FinishStep, FinishLive
<1>12. \/ mending
       \/ job \in {"seek", "load", "undo", "restart", "trial", "recover", "restore", "reject"}
  BY <1>1 DEF LandReady, Lands
<1> QED BY <1>1, <1>6, <1>7, <1>8, <1>9, <1>10, <1>11, <1>12

-----------------------------------------------------------------------------
(* The device and the first read. *)

DeviceReady(j, m, x) ==
    /\ PlaceOK(j, "device", m) /\ x.source # "none" /\ x.cont = Probed(x)
    /\ x.fixed = (x.media \in {"fixed", "station"})
    /\ x.attempt # "no" <=> j \in Attempts
    /\ m => x.transport = "none"
    /\ j \in {"load", "rejoin", "retry"} => x.transport = "none"
    /\ j = "load" => x.state = "Loading"
    /\ x.loading = 0
    /\ x.transport # "none" /\ x.media # "fixed" => x.state \notin Closed
    /\ j \in {"seek", "undo", "reject", "rebuild", "pausing"} /\ x.media # "fixed"
         => x.state \notin Closed
    /\ x.state = "Reconnecting" <=> j \in {"retry", "recover"}
    /\ x.state = "Reconnecting" => x.outage = "waiting" /\ Remote(x)

LEMMA AtDevice ==
    ASSUME EngInv, at = "device"
    PROVE  w \in WorkerRecord /\ DeviceReady(job, mending, w) /\ resume \in BOOLEAN
<1>1. w \in WorkerRecord /\ resume \in BOOLEAN /\ Stands(job, "device", mending, w)
  BY DEF EngInv, TypeOK
<1>2. PlaceOK(job, "device", mending) /\ job \in Opens \union Lands
  BY <1>1 DEF Stands, PlaceOK, LoopPlaces
<1>3. w.source # "none" /\ w.cont = Probed(w) /\ w.fixed = (w.media \in {"fixed", "station"})
  BY <1>1 DEF Stands, SourceOK
<1>4. /\ w.attempt # "no" <=> job \in Attempts
      /\ mending => w.transport = "none"
      /\ job \in {"load", "rejoin", "retry"} => w.transport = "none"
  BY <1>1 DEF Stands, AttemptOK
<1>5. /\ w.transport # "none" /\ w.media # "fixed" => w.state \notin Closed
      /\ job \in {"seek", "undo", "reject", "rebuild", "pausing"} /\ w.media # "fixed"
           => w.state \notin Closed
      /\ w.state = "Reconnecting" <=> job \in {"retry", "recover"}
      /\ w.state = "Reconnecting" => w.outage = "waiting" /\ Remote(w)
  BY <1>1, <1>2 DEF Stands, StateOK, Lands, Opens
<1>6. w.loading = 0 /\ (job = "load" => w.state = "Loading")
  BY <1>1 DEF Stands, LoadOK
<1> QED BY <1>1, <1>2, <1>3, <1>4, <1>5, <1>6 DEF DeviceReady

LEMMA DeviceAnswersSteps ==
    ASSUME EngInv, DeviceAnswers
    PROVE  StepOK /\ OpensLive
<1>1. w \in WorkerRecord /\ DeviceReady(job, mending, w) /\ resume \in BOOLEAN
  BY AtDevice DEF DeviceAnswers
<1> DEFINE y == [w EXCEPT !.transport = "parked", !.eof = FALSE]
<1>2. y \in WorkerRecord
  BY ZenonT(60), <1>1 DEF WorkerRecord
<1>3. /\ SameMedia(w, y) /\ SameLoad(w, y) /\ SameIntent(w, y)
      /\ y.source = w.source /\ y.transport = "parked" /\ y.state = w.state
      /\ y.outage = w.outage
  BY <1>1 DEF WorkerRecord, SameMedia, SameLoad, SameIntent
<1>4. /\ job' = job /\ at' = "prime" /\ w' = y /\ mending' = mending /\ resume' = resume
  BY DEF DeviceAnswers, Go, Stand
<1> HIDE DEF y
<1>5. PlaceOK(job, "prime", mending)
  BY <1>1 DEF DeviceReady, PlaceOK, LoopPlaces, Opens, Lands
<1>6. SourceOK(job, "prime", y)
  BY <1>1, <1>3 DEF DeviceReady, SourceOK, SameMedia, Indefinite, Probed
<1>7. AttemptOK(job, "prime", mending, y)
  BY <1>1, <1>3 DEF DeviceReady, AttemptOK, SameIntent
<1>8. StateOK(job, "prime", y)
  <2>1. job \in Opens \union Lands /\ job # "trial"
    BY <1>1 DEF DeviceReady, PlaceOK, LoopPlaces
  <2> QED BY <1>1, <1>3, <2>1 DEF DeviceReady, StateOK, SameMedia, Remote, Opens, Lands, Closed
<1>9. LoadOK(job, "prime", y)
  BY <1>1, <1>3 DEF DeviceReady, LoadOK, SameLoad
<1> QED BY <1>1, <1>2, <1>3, <1>4, <1>5, <1>6, <1>7, <1>8, <1>9
       DEF StepOK, Stands, LoadStep, IntentStep, OpensLive, SameIntent

LEMMA DeviceTimesOutSteps ==
    ASSUME EngInv, DeviceTimesOut
    PROVE  StepOK /\ OpensLive
<1>1. w \in WorkerRecord /\ DeviceReady(job, mending, w) /\ resume \in BOOLEAN
      /\ w.transport # "none" /\ ~mending
  BY AtDevice DEF DeviceTimesOut
<1> PICK y : y = Teardown(w)
  OBVIOUS
<1>2. /\ y \in WorkerRecord /\ SameMedia(w, y) /\ SameLoad(w, y) /\ SameIntent(w, y)
      /\ SameFetch(w, y)
      /\ y.state = w.state /\ y.transport = "none" /\ y.outage = w.outage
  BY <1>1, TeardownIs
<1>3. PICK a \in {"device", "land"} : job' = job /\ at' = a /\ w' = y /\ resume' = resume
                                      /\ mending' = TRUE
  BY <1>2 DEF DeviceTimesOut, StartRebuild, Stand
<1>4. job \in {"restore", "recover", "seek", "undo", "reject", "restart"}
  BY <1>1 DEF DeviceReady, PlaceOK, LoopPlaces, Opens, Lands
<1>5. PlaceOK(job, a, TRUE)
  BY <1>4 DEF PlaceOK, LoopPlaces, Opens, Lands
<1>6. SourceOK(job, a, y)
  BY <1>1, <1>2 DEF DeviceReady, SourceOK, SameMedia, SameFetch, Indefinite, Probed
<1>7. AttemptOK(job, a, TRUE, y)
  BY <1>1, <1>2, <1>4 DEF DeviceReady, AttemptOK, SameIntent
<1>8. StateOK(job, a, y)
  BY <1>1, <1>2, <1>4 DEF DeviceReady, StateOK, SameMedia, Remote, Closed
<1>9. LoadOK(job, a, y)
  BY <1>1, <1>2, <1>4 DEF DeviceReady, LoadOK, SameLoad
<1> QED BY <1>1, <1>2, <1>3, <1>5, <1>6, <1>7, <1>8, <1>9
       DEF StepOK, Stands, LoadStep, IntentStep, OpensLive, SameIntent

LEMMA QuietlyIs ==
    ASSUME NEW x \in WorkerRecord
    PROVE  LET y == Quietly(x)
           IN /\ y \in WorkerRecord /\ SameMedia(x, y) /\ SameLoad(x, y) /\ SameFetch(x, y)
              /\ y.attempt = "no" /\ y.pending = x.pending
              /\ y.state = x.state /\ y.transport = x.transport /\ y.outage = x.outage
BY DEF Quietly, WorkerRecord, SameMedia, SameLoad, SameFetch

LEMMA DeviceDoesNotOpenSteps ==
    ASSUME EngInv, DeviceDoesNotOpen
    PROVE  StepOK /\ OpensLive
<1>1. w \in WorkerRecord /\ DeviceReady(job, mending, w) /\ w.transport = "none"
  BY AtDevice DEF DeviceDoesNotOpen
<1>2. /\ w.loading = 0 /\ (Indefinite(w) => w.fixed) /\ w.source # "none"
      /\ w.cont = Probed(w) /\ w.fixed = (w.media \in {"fixed", "station"})
      /\ w.state = "Reconnecting" => w.outage = "waiting" /\ Remote(w)
      /\ w.attempt = "no" => w.state # "Reconnecting"
  BY <1>1 DEF DeviceReady, Indefinite, Probed, Attempts
<1> DEFINE q == Quietly(w)  b == Quietly(AbandonAttempt(w))
<1>3. \/ Finish(FailWith(q))
      \/ w.attempt = "no" /\ Finish(w)
      \/ Finish(b) \/ Finish(FailWith(b))
      \/ w.attempt = "no" /\ Finish(FailWith(w))
  <2>1. CASE mending
    BY <2>1 DEF DeviceDoesNotOpen
  <2>2. CASE ~mending /\ job = "undo"
    <3> DEFINE v == CASE mending -> FailWith(Quietly(w))
                      [] ~mending /\ job = "undo" -> w
                      [] ~mending /\ w.attempt # "no" ->
                            IF AttemptCancelled(w) THEN Quietly(AbandonAttempt(w))
                            ELSE FailWith(Quietly(AbandonAttempt(w)))
                      [] OTHER -> FailWith(w)
    <3>1. Finish(w)
      <4>1. Finish(v)
        BY DEF DeviceDoesNotOpen
      <4>2. v = w
        BY <1>1, <2>2 DEF DeviceReady, Attempts
      <4> QED BY <4>1, <4>2
    <3>2. w.attempt = "no"
      BY <1>1, <2>2 DEF DeviceReady, Attempts
    <3> QED BY <3>1, <3>2
  <2>3. CASE ~mending /\ job # "undo" /\ w.attempt # "no"
    <3>1. CASE AttemptCancelled(w)
      BY <2>3, <3>1 DEF DeviceDoesNotOpen
    <3>2. CASE ~AttemptCancelled(w)
      BY <2>3, <3>2 DEF DeviceDoesNotOpen
    <3> QED BY <3>1, <3>2
  <2>4. CASE ~mending /\ job # "undo" /\ w.attempt = "no"
    BY <2>4 DEF DeviceDoesNotOpen
  <2> QED BY <2>1, <2>2, <2>3, <2>4
<1>4. CASE Finish(FailWith(q))
  <2>1. /\ q \in WorkerRecord /\ SameMedia(w, q) /\ SameLoad(w, q) /\ SameFetch(w, q)
        /\ q.attempt = "no" /\ q.pending = w.pending
        /\ q.state = w.state /\ q.transport = w.transport /\ q.outage = w.outage
    BY <1>1, QuietlyIs
  <2> HIDE DEF q
  <2>2. /\ q.cont = Probed(q) /\ q.fixed = (q.media \in {"fixed", "station"})
        /\ Indefinite(q) => q.fixed
        /\ q.state = "Failed" => Rests(q)
    BY <1>1, <1>2, <2>1
       DEF SameMedia, SameLoad, SameFetch, Probed, Indefinite, Rests, Remote
  <2>3. /\ Rests(FailWith(q)) /\ LoadStep(q, FailWith(q)) /\ FailWith(q) \in WorkerRecord
        /\ FailWith(q).pending = q.pending
    BY <2>1, <2>2, FailRests
  <2>4. LoadStep(w, FailWith(q)) /\ FailWith(q).pending = w.pending
    BY <2>1, <2>3 DEF LoadStep, SameLoad, Concluded
  <2> QED BY <1>4, <2>3, <2>4, FinishStep, FinishLive
<1>5. w.attempt = "no" => Rests(w)
  BY <1>1, <1>2 DEF Rests
<1>6. CASE w.attempt = "no" /\ Finish(w)
  BY <1>1, <1>5, <1>6, FinishStep, FinishLive DEF LoadStep, SameLoad
<1>7. /\ Rests(b) /\ b \in WorkerRecord /\ SameLoad(w, b) /\ b.pending = w.pending
  BY <1>1, <1>2, AbandonRests
<1>8. CASE Finish(b)
  BY <1>7, <1>8, FinishStep, FinishLive DEF LoadStep
<1>9. CASE Finish(FailWith(b))
  <2> HIDE DEF b
  <2>1. /\ Rests(FailWith(b)) /\ LoadStep(b, FailWith(b)) /\ FailWith(b) \in WorkerRecord
        /\ FailWith(b).pending = b.pending
    BY <1>7, RestsFail
  <2>2. LoadStep(w, FailWith(b)) /\ FailWith(b).pending = w.pending
    BY <1>7, <2>1 DEF LoadStep, SameLoad, Concluded
  <2> QED BY <1>9, <2>1, <2>2, FinishStep, FinishLive
<1>10. CASE w.attempt = "no" /\ Finish(FailWith(w))
  BY <1>1, <1>5, <1>10, RestsFail, FinishStep, FinishLive
<1> QED BY <1>3, <1>4, <1>6, <1>8, <1>9, <1>10

(* A handler whose transport was primed. *)
LEMMA PrimedStands ==
    ASSUME NEW x \in WorkerRecord, NEW y \in WorkerRecord, NEW j, NEW m,
           Stands(j, "prime", m, x), SameMedia(x, y), SameLoad(x, y),
           x.attempt = "no" <=> y.attempt = "no",
           y.source # "none" \/ (Remote(y) /\ y.retired),
           \/ y.state = x.state /\ y.transport = x.transport /\ y.outage = x.outage
           \/ x.attempt = "no" /\ Rests(y)
    PROVE  Stands(j, "done", m, y)
<1>1. PlaceOK(j, "done", m) /\ j # "loop"
  BY DEF Stands, PlaceOK, LoopPlaces, Opens, Lands
<1>2. SourceOK(j, "done", y)
  BY DEF Stands, SourceOK, SameMedia, Remote, Probed, Indefinite, Rests
<1>3. AttemptOK(j, "done", m, y)
  BY DEF Stands, AttemptOK, Rests, Attempts
<1>4. StateOK(j, "done", y)
  <2>1. CASE y.state = x.state /\ y.transport = x.transport /\ y.outage = x.outage
    BY <1>1, <2>1 DEF Stands, StateOK, SameMedia, Remote, Closed
  <2>2. CASE x.attempt = "no" /\ Rests(y)
    BY <1>1, <2>2 DEF Stands, StateOK, AttemptOK, Attempts, Rests
  <2> QED BY <2>1, <2>2
<1>5. LoadOK(j, "done", y)
  BY DEF Stands, LoadOK, SameLoad
<1> QED BY <1>1, <1>2, <1>3, <1>4, <1>5 DEF Stands

LEMMA AtRead ==
    ASSUME EngInv, Reading
    PROVE  /\ w \in WorkerRecord /\ resume \in BOOLEAN /\ Stands(job, at, mending, w)
           /\ w.loading = 0 /\ w.source # "none" /\ w.cont = Probed(w)
           /\ w.fixed = (w.media \in {"fixed", "station"})
           /\ (Indefinite(w) => w.fixed)
           /\ at = "read" => /\ job = "loop" /\ mending = FALSE /\ Rests(w)
                             /\ w.state = "Playing" /\ w.transport # "none"
           /\ at = "prime" => job # "loop"
           /\ w.attempt = "no" /\ w.state = "Reconnecting" => FALSE
<1>1. w \in WorkerRecord /\ resume \in BOOLEAN /\ Stands(job, at, mending, w)
      /\ at \in {"prime", "read"}
  BY DEF EngInv, TypeOK, Reading
<1>2. w.source # "none" /\ w.cont = Probed(w) /\ w.fixed = (w.media \in {"fixed", "station"})
      /\ (Indefinite(w) => w.fixed)
  BY <1>1 DEF Stands, SourceOK
<1>3. w.loading = 0
  BY <1>1 DEF Stands, LoadOK
<1>4. at = "read" => job = "loop" /\ mending = FALSE
  BY <1>1 DEF Stands, PlaceOK, Opens, Lands, LoopPlaces
<1>5. at = "prime" => job # "loop"
  BY <1>1 DEF Stands, PlaceOK, LoopPlaces, Opens, Lands
<1>6. at = "read" => Rests(w)
  BY <1>1, <1>4, StandsRests
<1>7. at = "read" => w.state = "Playing" /\ w.transport # "none"
  BY <1>1 DEF Stands, StateOK
<1>8. ~(w.attempt = "no" /\ w.state = "Reconnecting")
  BY <1>1, <1>5, <1>7 DEF Stands, StateOK, AttemptOK, Attempts
<1> QED BY <1>1, <1>2, <1>3, <1>4, <1>5, <1>6, <1>7, <1>8

(* A read that ends, in the loop or in a handler. *)
LEMMA ReadStep ==
    ASSUME EngInv, Reading, NEW y \in WorkerRecord, AfterRead(y),
           SameMedia(w, y), LoadStep(w, y), y.pending = w.pending,
           w.attempt = "no" <=> y.attempt = "no",
           y.source # "none" \/ (Remote(y) /\ y.retired),
           \/ y.state = w.state /\ y.transport = w.transport /\ y.outage = w.outage
           \/ w.attempt = "no" /\ Rests(y)
    PROVE  StepOK /\ at' # "open"
<1>1. SameLoad(w, y)
  BY AtRead DEF LoadStep, SameLoad, Concluded
<1>2. CASE at = "read"
  <2>1. Go("loop", "end", y) /\ job = "loop"
    BY <1>2, AtRead DEF AfterRead
  <2>2. Rests(y)
    <3>1. w.state = "Playing" /\ Rests(w) /\ w \in WorkerRecord
      BY <1>2, AtRead
    <3>2. CASE y.state = w.state /\ y.transport = w.transport /\ y.outage = w.outage
      <4>1. /\ y.source # "none" \/ y.transport # "none" =>
                 y.cont = Probed(y) /\ y.fixed = (y.media \in {"fixed", "station"})
            /\ Indefinite(y) => y.fixed
        BY AtRead DEF SameMedia, Probed, Indefinite
      <4>2. y.attempt = "no" /\ y.loading = 0
        BY <1>1, <3>1 DEF Rests, SameLoad
      <4>3. y.state = "Playing"
        BY <3>1, <3>2
      <4> QED BY <4>1, <4>2, <4>3 DEF Rests, Closed
    <3> QED BY <3>2
  <2>3. StepOK
    BY <2>1, <2>2, LoopGoes
  <2> QED BY <2>1, <2>3 DEF Go, Stand
<1>3. CASE at # "read"
  <2>1. at = "prime"
    BY <1>3 DEF Reading
  <2>2. job' = job /\ at' = "done" /\ w' = y /\ mending' = mending /\ resume' = resume
    BY <1>3 DEF AfterRead, Go, Stand
  <2>3. Stands(job, "done", mending, y)
    BY <1>1, <2>1, AtRead, PrimedStands
  <2> QED BY <1>1, <2>2, <2>3, AtRead DEF StepOK, IntentStep
<1> QED BY <1>2, <1>3

LEMMA ReadFillsSteps ==
    ASSUME EngInv, ReadFills
    PROVE  StepOK /\ at' # "open"
<1>1. Reading /\ AfterRead(w)
  BY DEF ReadFills
<1> QED BY <1>1, AtRead, ReadStep DEF SameMedia, LoadStep, SameLoad

(* The decoder is drained. *)
LEMMA DrainedIs ==
    ASSUME NEW x \in WorkerRecord
    PROVE  LET y == [x EXCEPT !.eof = TRUE]
           IN /\ y \in WorkerRecord /\ SameMedia(x, y) /\ SameLoad(x, y) /\ SameIntent(x, y)
              /\ SameFetch(x, y)
              /\ y.state = x.state /\ y.transport = x.transport /\ y.outage = x.outage
BY DEF WorkerRecord, SameMedia, SameLoad, SameIntent, SameFetch

LEMMA ReadEndsOfFileSteps ==
    ASSUME EngInv, ReadEndsOfFile
    PROVE  StepOK /\ at' # "open"
<1> PICK y : y = [w EXCEPT !.eof = TRUE]
  OBVIOUS
<1>1. Reading /\ AfterRead(y)
  BY DEF ReadEndsOfFile
<1>2. /\ y \in WorkerRecord /\ SameMedia(w, y) /\ SameLoad(w, y) /\ SameIntent(w, y)
      /\ SameFetch(w, y)
      /\ y.state = w.state /\ y.transport = w.transport /\ y.outage = w.outage
  BY <1>1, AtRead, DrainedIs
<1>3. y.source # "none"
  BY <1>1, <1>2, AtRead DEF SameFetch
<1> QED BY <1>1, <1>2, <1>3, ReadStep DEF LoadStep, SameIntent

LEMMA ReadRetiredSteps ==
    ASSUME EngInv, ReadRetired
    PROVE  StepOK /\ at' # "open"
<1> PICK y : y = RetireRemoteSource(w)
  OBVIOUS
<1>1. Reading /\ AfterRead(y) /\ Remote(w)
  BY DEF ReadRetired
<1>2. /\ y \in WorkerRecord /\ SameMedia(w, y) /\ SameLoad(w, y) /\ SameIntent(w, y)
      /\ y.source = "none" /\ y.retired = TRUE
      /\ y.state = w.state /\ y.transport = w.transport /\ y.outage = w.outage
  BY <1>1, AtRead, RetireRemoteIs
<1>3. Remote(y)
  BY <1>1, <1>2 DEF SameMedia, Remote
<1> QED BY <1>1, <1>2, <1>3, ReadStep DEF LoadStep, SameIntent

(* A read error leaves the worker at rest, or is noted by the attempt. *)
LEMMA SourceDiesSteps ==
    ASSUME EngInv, Reading, NEW cause \in {"retry", "fatal"}, NEW y \in SourceDies(w, cause)
    PROVE  \/ y = w
           \/ /\ y \in WorkerRecord
              /\ SameMedia(w, y) /\ LoadStep(w, y) /\ y.pending = w.pending
              /\ w.attempt = "no" <=> y.attempt = "no"
              /\ y.source # "none" \/ (Remote(y) /\ y.retired)
              /\ \/ y.state = w.state /\ y.transport = w.transport /\ y.outage = w.outage
                 \/ w.attempt = "no" /\ Rests(y)
<1>1. w \in WorkerRecord /\ w.loading = 0 /\ w.source # "none" /\ w.cont = Probed(w)
      /\ w.fixed = (w.media \in {"fixed", "station"})
      /\ (Indefinite(w) => w.fixed)
      /\ ~(w.attempt = "no" /\ w.state = "Reconnecting")
  BY AtRead
<1>2. \/ w.attempt # "no" /\ Remote(w) /\ y = [w EXCEPT !.attempt = cause]
      \/ w.attempt = "no" /\ Remote(w) /\ y \in EnterReconnecting(w)
      \/ w.attempt = "no" /\ Remote(w) /\ y = FailWith(w)
      \/ w.attempt = "no" /\ Remote(w) /\ w.state = "Playing" /\ y = PauseClosing(w)
      \/ ~Remote(w) /\ y = [w EXCEPT !.eof = TRUE]
  <2>0. Indefinite(w) => Remote(w)
    BY <1>1 DEF Indefinite, Probed, Remote
  <2>1. CASE w.attempt # "no" /\ Remote(w)
    BY <2>1 DEF SourceDies
  <2>2. CASE w.attempt = "no" /\ Indefinite(w)
    <3>1. CASE cause = "retry"
      BY <2>0, <2>2, <3>1 DEF SourceDies
    <3>2. CASE cause # "retry"
      BY <2>0, <2>2, <3>2 DEF SourceDies
    <3> QED BY <3>1, <3>2
  <2>3. CASE w.attempt = "no" /\ ~Indefinite(w) /\ Remote(w)
    <3>1. CASE cause = "retry" /\ w.state = "Playing" /\ w.cont = "finite" /\ ~w.fixed
      <4>1. CASE w.frozen
        BY <2>3, <3>1, <4>1 DEF SourceDies
      <4>2. CASE ~w.frozen
        BY <2>3, <3>1, <4>2 DEF SourceDies
      <4> QED BY <4>1, <4>2
    <3>2. CASE ~(cause = "retry" /\ w.state = "Playing" /\ w.cont = "finite" /\ ~w.fixed)
      BY <2>3, <3>2 DEF SourceDies
    <3> QED BY <3>1, <3>2
  <2>4. CASE ~Remote(w)
    BY <2>0, <2>4 DEF SourceDies
  <2> QED BY <2>1, <2>2, <2>3, <2>4
<1>3. CASE w.attempt # "no" /\ Remote(w) /\ y = [w EXCEPT !.attempt = cause]
  <2>1. y \in WorkerRecord
    BY <1>1, <1>3 DEF WorkerRecord
  <2>2. /\ SameMedia(w, y) /\ SameLoad(w, y) /\ y.pending = w.pending /\ y.source = w.source
        /\ y.attempt = cause
        /\ y.state = w.state /\ y.transport = w.transport /\ y.outage = w.outage
    BY <1>1, <1>3 DEF WorkerRecord, SameMedia, SameLoad
  <2> QED BY <1>1, <1>3, <2>1, <2>2 DEF LoadStep
<1>4. CASE w.attempt = "no" /\ Remote(w) /\ y \in EnterReconnecting(w) /\ y # FailWith(w)
  <2>1. /\ y \in WorkerRecord
        /\ SameMedia(w, y) /\ SameLoad(w, y) /\ SameIntent(w, y)
        /\ y.source = "none" /\ y.retired = TRUE
        /\ y.state = "Reconnecting" /\ y.transport = w.transport /\ y.outage = "waiting"
    BY <1>1, <1>4, EnterReconnectingIs
  <2>2. Rests(y) /\ Remote(y)
    BY <1>1, <1>4, <2>1 DEF SameMedia, SameLoad, SameIntent, Remote, Probed, Indefinite,
                            Rests, Closed
  <2> QED BY <1>4, <2>1, <2>2 DEF LoadStep, SameIntent
<1>5. CASE w.attempt = "no" /\ Remote(w) /\ y = FailWith(w)
  <2>1. CASE w.state = "Failed"
    BY <1>1, <1>5, <2>1, FailIs
  <2>2. CASE w.state # "Failed"
    <3>1. Rests(y) /\ LoadStep(w, y) /\ y \in WorkerRecord /\ y.pending = w.pending
      BY <1>1, <1>5, <2>2, FailRests
    <3>2. SameMedia(w, y) /\ y.source = "none" /\ y.retired = TRUE
      BY <1>1, <1>5, <2>2, FailIs
    <3>3. Remote(y) /\ y.attempt = "no"
      BY <1>5, <3>1, <3>2 DEF SameMedia, Remote, Rests
    <3> QED BY <1>5, <3>1, <3>2, <3>3
  <2> QED BY <2>1, <2>2
<1>6. CASE w.attempt = "no" /\ Remote(w) /\ w.state = "Playing" /\ y = PauseClosing(w)
  <2>1. Pausable(w)
    BY <1>6 DEF Pausable
  <2>2. Rests(y) /\ SameLoad(w, y) /\ y \in WorkerRecord /\ y.pending = w.pending
    BY <1>1, <1>6, <2>1, PauseRests
  <2>3. SameMedia(w, y) /\ y.source = "none" /\ y.retired = TRUE
    BY <1>1, <1>6, <2>1, PauseClosingIs
  <2>4. Remote(y) /\ y.attempt = "no"
    BY <1>6, <2>2, <2>3 DEF SameMedia, Remote, Rests
  <2> QED BY <1>6, <2>2, <2>3, <2>4 DEF LoadStep
<1>7. CASE ~Remote(w) /\ y = [w EXCEPT !.eof = TRUE]
  <2>1. /\ y \in WorkerRecord /\ SameMedia(w, y) /\ SameLoad(w, y) /\ SameIntent(w, y)
        /\ SameFetch(w, y)
        /\ y.state = w.state /\ y.transport = w.transport /\ y.outage = w.outage
    BY <1>1, <1>7, DrainedIs
  <2> QED BY <1>1, <2>1 DEF LoadStep, SameIntent, SameFetch
<1> QED BY <1>2, <1>3, <1>4, <1>5, <1>6, <1>7

LEMMA ReadFailsSteps ==
    ASSUME EngInv, ReadFails
    PROVE  StepOK /\ at' # "open"
<1>1. Reading
  BY DEF ReadFails
<1>2. PICK cause \in {"retry", "fatal"} : \E x \in SourceDies(w, cause) :
              IF x = w THEN Go(job, at, [w EXCEPT !.source = "broken"]) ELSE AfterRead(x)
  BY DEF ReadFails
<1>3. PICK x \in SourceDies(w, cause) :
              IF x = w THEN Go(job, at, [w EXCEPT !.source = "broken"]) ELSE AfterRead(x)
  BY <1>2
<1>4. CASE x # w
  <2>1. AfterRead(x)
    BY <1>3, <1>4
  <2>2. /\ x \in WorkerRecord
        /\ SameMedia(w, x) /\ LoadStep(w, x) /\ x.pending = w.pending
        /\ w.attempt = "no" <=> x.attempt = "no"
        /\ x.source # "none" \/ (Remote(x) /\ x.retired)
        /\ \/ x.state = w.state /\ x.transport = w.transport /\ x.outage = w.outage
           \/ w.attempt = "no" /\ Rests(x)
    BY <1>1, <1>4, SourceDiesSteps
  <2> QED BY <1>1, <2>1, <2>2, ReadStep
<1>5. CASE x = w
  <2> DEFINE b == [w EXCEPT !.source = "broken"]
  <2>1. /\ w \in WorkerRecord /\ resume \in BOOLEAN /\ Stands(job, at, mending, w)
        /\ w.source # "none" /\ at \in {"prime", "read"}
    BY <1>1, AtRead DEF Reading
  <2>2. b \in WorkerRecord
    BY <2>1 DEF WorkerRecord
  <2>3. /\ SameMedia(w, b) /\ SameLoad(w, b) /\ SameIntent(w, b) /\ b.source = "broken"
        /\ b.retired = w.retired
        /\ b.state = w.state /\ b.transport = w.transport /\ b.outage = w.outage
    BY <2>1 DEF WorkerRecord, SameMedia, SameLoad, SameIntent
  <2>4. job' = job /\ at' = at /\ w' = b /\ mending' = mending /\ resume' = resume
    BY <1>3, <1>5 DEF Go, Stand
  <2> HIDE DEF b
  <2>5. SourceOK(job, at, b) /\ PlaceOK(job, at, mending)
    BY <2>1, <2>3 DEF Stands, SourceOK, SameMedia, Remote, Probed, Indefinite
  <2>6. AttemptOK(job, at, mending, b)
    BY <2>1, <2>3 DEF Stands, AttemptOK, SameIntent
  <2>7. StateOK(job, at, b)
    <3>1. at = "read" => job = "loop" /\ w.state = "Playing"
      BY <1>1, AtRead
    <3>2. at = "prime" => job # "loop"
      BY <1>1, AtRead
    <3> QED BY <2>1, <2>3, <3>1, <3>2 DEF Stands, StateOK, SameMedia, Remote
  <2>8. LoadOK(job, at, b)
    BY <2>1, <2>3 DEF Stands, LoadOK, SameLoad
  <2> QED BY <2>1, <2>2, <2>3, <2>4, <2>5, <2>6, <2>7, <2>8
         DEF StepOK, Stands, LoadStep, IntentStep, SameIntent
<1> QED BY <1>4, <1>5

-----------------------------------------------------------------------------
(* A handler returns. *)

LEMMA AnnounceIs ==
    ASSUME NEW x \in WorkerRecord
    PROVE  LET y == AnnouncePlaying(x)
           IN /\ y \in WorkerRecord /\ SameMedia(x, y) /\ SameLoad(x, y) /\ SameIntent(x, y)
              /\ SameFetch(x, y) /\ y.transport = x.transport /\ y.outage = x.outage
              /\ x.transport # "none" => y.state = "Playing"
              /\ x.transport = "none" => y = x
<1>1. CASE x.transport = "none"
  BY <1>1 DEF AnnouncePlaying, SameMedia, SameLoad, SameIntent, SameFetch
<1>2. CASE x.transport # "none"
  BY <1>2, SetStateIs DEF AnnouncePlaying, States
<1> QED BY <1>1, <1>2

LEMMA ReleasedIs ==
    ASSUME NEW x \in WorkerRecord
    PROVE  LET y == Released(x)
           IN /\ y \in WorkerRecord /\ SameMedia(x, y) /\ SameLoad(x, y) /\ SameIntent(x, y)
              /\ SameFetch(x, y) /\ y.state = x.state /\ y.outage = x.outage
              /\ y.transport = "none" <=> x.transport = "none"
<1>1. Released(x) = x \/ Released(x) = StartRunning(x)
  BY DEF Released
<1>2. CASE Released(x) = x
  BY <1>2 DEF SameMedia, SameLoad, SameIntent, SameFetch
<1>3. CASE Released(x) = StartRunning(x)
  BY <1>3, StartRunningIs
<1> QED BY <1>1, <1>2, <1>3

DoneReady(j, x) ==
    /\ j \in (Opens \union Lands) \ {"trial"}
    /\ x.source # "none" \/ x.transport # "none" =>
         x.cont = Probed(x) /\ x.fixed = (x.media \in {"fixed", "station"})
    /\ Indefinite(x) => x.fixed
    /\ Remote(x) /\ x.source = "none" => x.retired
    /\ x.source # "none" \/ Remote(x)
    /\ x.attempt # "no" <=> j \in Attempts
    /\ j \in Attempts => x.transport # "none"
    /\ x.loading = 0
    /\ x.state \in Closed /\ x.transport # "none" /\ x.media # "fixed"
         => j \in {"restart", "restore", "rejoin"}
    /\ j \in {"retry", "recover"} => x.state = "Reconnecting"
    /\ x.state = "Reconnecting" =>
         /\ x.outage = "waiting" /\ Remote(x)
         /\ x.source = "none" \/ j \in {"retry", "recover"}

LEMMA AtDone ==
    ASSUME EngInv, at = "done"
    PROVE  w \in WorkerRecord /\ DoneReady(job, w)
<1>1. w \in WorkerRecord /\ Stands(job, "done", mending, w)
  BY DEF EngInv, TypeOK
<1>2. job \in (Opens \union Lands) \ {"trial"}
  BY <1>1 DEF Stands, PlaceOK, LoopPlaces
<1>3. /\ w.source # "none" \/ w.transport # "none" =>
           w.cont = Probed(w) /\ w.fixed = (w.media \in {"fixed", "station"})
      /\ Indefinite(w) => w.fixed
      /\ Remote(w) /\ w.source = "none" => w.retired
      /\ w.source # "none" \/ Remote(w)
  BY <1>1 DEF Stands, SourceOK
<1>4. /\ w.attempt # "no" <=> job \in Attempts
      /\ job \in Attempts => w.transport # "none"
  BY <1>1 DEF Stands, AttemptOK
<1>5. /\ w.state \in Closed /\ w.transport # "none" /\ w.media # "fixed"
           => job \in {"restart", "restore", "rejoin"}
      /\ job \in {"retry", "recover"} => w.state = "Reconnecting"
      /\ w.state = "Reconnecting" =>
           /\ w.outage = "waiting" /\ Remote(w)
           /\ w.source = "none" \/ job \in {"retry", "recover"}
  BY <1>1 DEF Stands, StateOK
<1>6. w.loading = 0
  BY <1>1 DEF Stands, LoadOK
<1> QED BY <1>1, <1>2, <1>3, <1>4, <1>5, <1>6 DEF DoneReady

(* What a plain handler leaves at rest. *)
LEMMA DoneRests ==
    ASSUME NEW j, NEW x \in WorkerRecord, NEW y \in WorkerRecord, DoneReady(j, x),
           j \notin Attempts, SameMedia(x, y), SameLoad(x, y), y.attempt = x.attempt,
           SameFetch(x, y), y.outage = x.outage,
           y.transport = "none" <=> x.transport = "none",
           \/ y.state = x.state /\ j # "restart"
           \/ y.state \in {"Paused", "Playing"}
           \/ y.state = x.state /\ (x.state = "Reconnecting" \/ x.transport = "none")
    PROVE  Rests(y)
<1>1. /\ y.source # "none" \/ y.transport # "none" =>
           y.cont = Probed(y) /\ y.fixed = (y.media \in {"fixed", "station"})
      /\ Indefinite(y) => y.fixed
      /\ Remote(y) /\ y.source = "none" => y.retired
  BY DEF DoneReady, SameMedia, SameFetch, Probed, Indefinite, Remote
<1>2. y.attempt = "no" /\ y.loading = 0
  BY DEF DoneReady, SameLoad
<1>3. ~(y.state \in Closed /\ y.transport # "none" /\ y.media # "fixed")
  BY DEF DoneReady, SameMedia, Closed, Attempts
<1>4. y.state = "Reconnecting" => y.outage = "waiting" /\ Remote(y) /\ y.source = "none"
  BY DEF DoneReady, SameMedia, SameFetch, Remote, Attempts
<1> QED BY <1>1, <1>2, <1>3, <1>4 DEF Rests

(* An attempt that is committed plays, and has its source. *)
LEMMA CommittedIs ==
    ASSUME NEW j, NEW x \in WorkerRecord, DoneReady(j, x), j \in Attempts,
           Remote(x) => ~x.retired
    PROVE  LET y == Committed(x)
           IN /\ y \in WorkerRecord /\ SameMedia(x, y) /\ SameLoad(x, y) /\ SameFetch(x, y)
              /\ y.attempt = "no" /\ y.state = "Playing" /\ y.transport # "none"
              /\ y.source # "none"
<1> PICK q : q = Quietly(x)
  OBVIOUS
<1> PICK r : r = StartRunning(q)
  OBVIOUS
<1> PICK a : a = AnnouncePlaying(r)
  OBVIOUS
<1> DEFINE y == [a EXCEPT !.pending = "none"]
<1>1. q \in WorkerRecord /\ SameMedia(x, q) /\ SameLoad(x, q) /\ SameFetch(x, q)
      /\ q.attempt = "no" /\ q.transport = x.transport
  BY QuietlyIs
<1>2. r \in WorkerRecord /\ SameMedia(q, r) /\ SameLoad(q, r) /\ SameFetch(q, r)
      /\ SameIntent(q, r) /\ (r.transport = "none" <=> q.transport = "none")
  BY <1>1, StartRunningIs
<1>3. x.transport # "none" /\ x.source # "none"
  BY DEF DoneReady
<1>4. a \in WorkerRecord /\ SameMedia(r, a) /\ SameLoad(r, a) /\ SameFetch(r, a)
      /\ SameIntent(r, a) /\ a.state = "Playing" /\ a.transport # "none"
  BY <1>1, <1>2, <1>3, AnnounceIs
<1>5. y \in WorkerRecord
  BY <1>4 DEF WorkerRecord
<1>6. SameMedia(a, y) /\ SameLoad(a, y) /\ SameFetch(a, y) /\ y.attempt = a.attempt
      /\ y.state = a.state /\ y.transport = a.transport
  BY <1>4 DEF WorkerRecord, SameMedia, SameLoad, SameFetch
<1>7. y = Committed(x)
  BY DEF Committed
<1> HIDE DEF y
<1>8. SameMedia(x, y) /\ SameLoad(x, y) /\ SameFetch(x, y)
  BY <1>1, <1>2, <1>4, <1>6 DEF SameMedia, SameLoad, SameFetch
<1>9. y.attempt = "no"
  BY <1>1, <1>2, <1>4, <1>6 DEF SameIntent
<1> QED BY <1>3, <1>4, <1>5, <1>6, <1>7, <1>8, <1>9 DEF SameFetch

LEMMA AttemptDoneSteps ==
    ASSUME EngInv, at = "done", job \in Attempts, NEW x \in AttemptDone(w)
    PROVE  /\ Rests(x) /\ x \in WorkerRecord /\ LoadStep(w, x)
           /\ x.pending = w.pending \/ x.source # "none"
<1>1. w \in WorkerRecord /\ DoneReady(job, w)
  BY AtDone
<1> DEFINE b == AbandonAttempt(w)  y == Quietly(b)
<1>2. /\ Rests(y) /\ y \in WorkerRecord /\ SameLoad(w, y) /\ y.pending = w.pending
      /\ SameMedia(w, y)
  BY <1>1, AbandonRests DEF DoneReady
<1> HIDE DEF y
<1>3. CASE AttemptCancelled(w)
  <2>1. x = y
    BY <1>3 DEF AttemptDone, y
  <2> QED BY <1>2, <2>1 DEF LoadStep
<1>4. CASE ~AttemptCancelled(w) /\ w.attempt # "ok"
  <2>1. CASE job \in {"restore", "rejoin"}
    <3>1. x = FailWith(y)
      BY <1>4, <2>1 DEF AttemptDone, y
    <3>2. Rests(x) /\ LoadStep(y, x) /\ x \in WorkerRecord /\ x.pending = y.pending
      BY <1>2, <3>1, RestsFail
    <3> QED BY <1>2, <3>2 DEF LoadStep, SameLoad, Concluded
  <2>2. CASE job \notin {"restore", "rejoin"}
    <3>1. x \in AttemptFails(y, w.attempt)
      BY <1>4, <2>2 DEF AttemptDone, y
    <3>2. job \in {"retry", "recover"}
      BY <2>2 DEF Attempts
    <3>3. Remote(y)
      BY <1>1, <1>2, <3>2 DEF DoneReady, SameMedia, Remote
    <3>4. /\ y.attempt = "no" /\ y.loading = 0
          /\ y.source # "none" \/ y.transport # "none" =>
               y.cont = Probed(y) /\ y.fixed = (y.media \in {"fixed", "station"})
          /\ Indefinite(y) => y.fixed
      BY <1>2 DEF Rests
    <3>5. Rests(x) /\ LoadStep(y, x) /\ x \in WorkerRecord /\ x.pending = y.pending
      BY <1>2, <3>1, <3>3, <3>4, FailedAttemptRests
    <3> QED BY <1>2, <3>5 DEF LoadStep, SameLoad, Concluded
  <2> QED BY <2>1, <2>2
<1>5. CASE ~AttemptCancelled(w) /\ w.attempt = "ok"
  <2> DEFINE c == Committed(w)  d == [c EXCEPT !.outage = "window"]
  <2>1. x = c \/ x = d
    BY <1>5 DEF AttemptDone
  <2>2. /\ c \in WorkerRecord /\ SameMedia(w, c) /\ SameLoad(w, c) /\ SameFetch(w, c)
        /\ c.attempt = "no" /\ c.state = "Playing" /\ c.transport # "none"
        /\ c.source # "none"
    BY <1>1, <1>5, CommittedIs DEF AttemptCancelled
  <2> HIDE DEF c
  <2>3. /\ d \in WorkerRecord /\ SameMedia(c, d) /\ SameLoad(c, d) /\ SameFetch(c, d)
        /\ d.attempt = "no" /\ d.state = "Playing" /\ d.transport # "none"
        /\ d.source # "none"
    BY <2>2 DEF WorkerRecord, SameMedia, SameLoad, SameFetch
  <2> HIDE DEF d
  <2>4. /\ x \in WorkerRecord /\ SameMedia(w, x) /\ SameLoad(w, x) /\ SameFetch(w, x)
        /\ x.attempt = "no" /\ x.state = "Playing" /\ x.source # "none"
    BY <2>1, <2>2, <2>3 DEF SameMedia, SameLoad, SameFetch
  <2>5. Rests(x)
    BY <1>1, <2>4 DEF DoneReady, SameMedia, SameLoad, SameFetch, Probed, Indefinite, Remote,
                      Rests, Closed
  <2> QED BY <2>4, <2>5 DEF LoadStep
<1> QED BY <1>3, <1>4, <1>5

LEMMA RestartDone ==
    ASSUME EngInv, at = "done", job = "restart", NEW x \in Primed(w)
    PROVE  /\ Rests(x) /\ x \in WorkerRecord /\ LoadStep(w, x)
           /\ x.pending = w.pending \/ x.pending = "restart"
<1>1. w \in WorkerRecord /\ DoneReady(job, w) /\ job \notin Attempts
  BY AtDone DEF Attempts
<1> PICK r : r = Released(w)
  OBVIOUS
<1>2. /\ r \in WorkerRecord /\ SameMedia(w, r) /\ SameLoad(w, r) /\ SameIntent(w, r)
      /\ SameFetch(w, r) /\ r.state = w.state /\ r.outage = w.outage
      /\ r.transport = "none" <=> w.transport = "none"
  BY <1>1, ReleasedIs
<1>3. x = IF w.state = "Reconnecting" THEN [r EXCEPT !.pending = "restart"]
                                      ELSE AnnouncePlaying(r)
  BY DEF Primed
<1>4. CASE w.state = "Reconnecting"
  <2>1. x = [r EXCEPT !.pending = "restart"]
    BY <1>3, <1>4
  <2>2. /\ x \in WorkerRecord /\ SameMedia(r, x) /\ SameLoad(r, x) /\ SameFetch(r, x)
        /\ x.attempt = r.attempt /\ x.pending = "restart"
        /\ x.state = r.state /\ x.outage = r.outage /\ x.transport = r.transport
    BY <1>2, <2>1 DEF WorkerRecord, SameMedia, SameLoad, SameFetch
  <2>3. SameMedia(w, x) /\ SameLoad(w, x) /\ SameFetch(w, x) /\ x.attempt = w.attempt
    BY <1>2, <2>2 DEF SameMedia, SameLoad, SameFetch, SameIntent
  <2>4. Rests(x)
    BY <1>1, <1>2, <1>4, <2>2, <2>3, DoneRests
  <2> QED BY <2>2, <2>3, <2>4 DEF LoadStep
<1>5. CASE w.state # "Reconnecting"
  <2>1. x = AnnouncePlaying(r)
    BY <1>3, <1>5
  <2>2. /\ x \in WorkerRecord /\ SameMedia(r, x) /\ SameLoad(r, x) /\ SameIntent(r, x)
        /\ SameFetch(r, x) /\ x.transport = r.transport /\ x.outage = r.outage
        /\ r.transport # "none" => x.state = "Playing"
        /\ r.transport = "none" => x = r
    BY <1>2, <2>1, AnnounceIs
  <2>3. SameMedia(w, x) /\ SameLoad(w, x) /\ SameFetch(w, x) /\ SameIntent(w, x)
    BY <1>2, <2>2 DEF SameMedia, SameLoad, SameFetch, SameIntent
  <2>4. Rests(x)
    BY <1>1, <1>2, <1>5, <2>2, <2>3, DoneRests DEF SameIntent
  <2> QED BY <2>2, <2>3, <2>4 DEF LoadStep, SameIntent
<1> QED BY <1>4, <1>5

LEMMA PlainDone ==
    ASSUME EngInv, at = "done", job \notin Attempts, job # "restart", NEW x \in Primed(w)
    PROVE  /\ Rests(x) /\ x \in WorkerRecord /\ LoadStep(w, x) /\ x.pending = w.pending
<1>1. w \in WorkerRecord /\ DoneReady(job, w)
  BY AtDone
<1> PICK r : r = Released(w)
  OBVIOUS
<1>2. /\ r \in WorkerRecord /\ SameMedia(w, r) /\ SameLoad(w, r) /\ SameIntent(w, r)
      /\ SameFetch(w, r) /\ r.state = w.state /\ r.outage = w.outage
      /\ r.transport = "none" <=> w.transport = "none"
  BY <1>1, ReleasedIs
<1> PICK h : h = ReconcileFrozenByHook(w)
  OBVIOUS
<1>3. /\ h \in WorkerRecord /\ SameMedia(w, h) /\ SameLoad(w, h) /\ SameIntent(w, h)
      /\ SameFetch(w, h) /\ h.state = w.state /\ h.outage = w.outage
      /\ h.transport = w.transport
  BY ZenonT(60), <1>1 DEF ReconcileFrozenByHook, WorkerRecord, SameMedia, SameLoad, SameIntent, SameFetch
<1>4. PICK z \in {w, r, h} : x = z \/ x = SetState(z, "Paused")
  <2>1. CASE job = "load"
    BY <2>1 DEF Primed
  <2>2. CASE job = "seek"
    BY <2>2 DEF Primed
  <2>3. CASE job = "pausing"
    BY <2>3 DEF Primed
  <2>4. CASE job \notin {"load", "seek", "pausing"}
    BY <2>4 DEF Primed, Attempts
  <2> QED BY <2>1, <2>2, <2>3, <2>4
<1>5. /\ z \in WorkerRecord /\ SameMedia(w, z) /\ SameLoad(w, z) /\ SameIntent(w, z)
      /\ SameFetch(w, z) /\ z.state = w.state /\ z.outage = w.outage
      /\ z.transport = "none" <=> w.transport = "none"
  BY <1>1, <1>2, <1>3 DEF SameMedia, SameLoad, SameIntent, SameFetch
<1>6. CASE x = z
  BY <1>1, <1>5, <1>6, DoneRests DEF LoadStep, SameIntent
<1>7. CASE x = SetState(z, "Paused")
  <2>1. /\ x \in WorkerRecord /\ SameMedia(z, x) /\ SameLoad(z, x) /\ SameIntent(z, x)
        /\ SameFetch(z, x)
        /\ x.state = "Paused" /\ x.transport = z.transport /\ x.outage = z.outage
    BY <1>5, <1>7, SetStateIs DEF States
  <2>2. SameMedia(w, x) /\ SameLoad(w, x) /\ SameFetch(w, x) /\ SameIntent(w, x)
    BY <1>5, <2>1 DEF SameMedia, SameLoad, SameFetch, SameIntent
  <2>3. Rests(x)
    BY <1>1, <1>5, <2>1, <2>2, DoneRests DEF SameIntent
  <2> QED BY <2>1, <2>2, <2>3 DEF LoadStep, SameIntent
<1> QED BY <1>4, <1>6, <1>7

LEMMA HandlerDoneSteps ==
    ASSUME EngInv, HandlerDone
    PROVE  StepOK /\ OpensLive
<1>1. PICK x \in Primed(w) : Finish(x)
  BY DEF HandlerDone
<1>2. at = "done"
  BY DEF HandlerDone
<1>3. /\ Rests(x) /\ x \in WorkerRecord /\ LoadStep(w, x)
      /\ x.pending = w.pending \/ x.pending = "restart" \/ x.source # "none"
  <2>1. CASE job \in Attempts
    <3>1. x \in AttemptDone(w)
      BY <2>1 DEF Primed, Attempts
    <3> QED BY <1>2, <2>1, <3>1, AttemptDoneSteps
  <2>2. CASE job = "restart"
    BY <1>2, <2>2, RestartDone
  <2>3. CASE job \notin Attempts /\ job # "restart"
    BY <1>2, <2>3, PlainDone
  <2> QED BY <2>1, <2>2, <2>3
<1> QED BY <1>1, <1>3, FinishStep, FinishLive

-----------------------------------------------------------------------------
(* The front end and the wait hook move no handler. *)

LEMMA StandsSame ==
    ASSUME NEW x \in WorkerRecord, NEW y \in WorkerRecord, NEW j, NEW a, NEW m,
           Stands(j, a, m, x), SameMedia(x, y), SameLoad(x, y), y.attempt = x.attempt,
           y.source = x.source, x.retired => y.retired, y.state = x.state,
           y.outage = x.outage, y.transport = "none" <=> x.transport = "none"
    PROVE  Stands(j, a, m, y)
<1>1. PlaceOK(j, a, m) /\ LoadOK(j, a, y)
  BY DEF Stands, LoadOK, SameLoad
<1>2. SourceOK(j, a, y)
  BY DEF Stands, SourceOK, SameMedia, Remote, Probed, Indefinite
<1>3. AttemptOK(j, a, m, y)
  BY DEF Stands, AttemptOK
<1>4. StateOK(j, a, y)
  BY DEF Stands, StateOK, SameMedia, Remote
<1> QED BY <1>1, <1>2, <1>3, <1>4 DEF Stands

(* What such a step does to the worker's fields. *)
Beside(x, y) ==
    /\ y \in WorkerRecord /\ SameMedia(x, y) /\ SameLoad(x, y) /\ SameIntent(x, y)
    /\ y.source = x.source /\ (x.retired => y.retired) /\ y.state = x.state
    /\ y.outage = x.outage /\ (y.transport = "none" <=> x.transport = "none")

LEMMA BesideStep ==
    ASSUME EngInv, Beside(w, w'), UNCHANGED <<job, at, resume, mending>>
    PROVE  StepOK
<1>1. w \in WorkerRecord /\ w' \in WorkerRecord /\ resume \in BOOLEAN
      /\ Stands(job, at, mending, w)
  BY DEF EngInv, TypeOK, Beside
<1>2. Stands(job, at, mending, w')
  BY <1>1, StandsSame DEF Beside, SameIntent
<1> QED BY <1>1, <1>2 DEF StepOK, LoadStep, IntentStep, Beside, SameIntent

LEMMA BesideMoves ==
    ASSUME NEW x \in WorkerRecord
    PROVE  /\ Beside(x, x) /\ Beside(x, Retire(x)) /\ Beside(x, RetireAimed(x))
           /\ Beside(x, ObserveGeneration(x))
           /\ \A b \in BOOLEAN : Beside(x, [x EXCEPT !.frozen = b])
<1>1. Beside(x, x)
  BY DEF Beside, SameMedia, SameLoad, SameIntent
<1>2. Beside(x, Retire(x))
  BY RetireIs DEF Beside
<1>3. Beside(x, RetireAimed(x))
  BY <1>1, <1>2 DEF RetireAimed
<1>4. Beside(x, ObserveGeneration(x))
  <2>1. (~x.retired) \in BOOLEAN
    OBVIOUS
  <2>2. \A b \in BOOLEAN : Beside(x, [x EXCEPT !.aim = b])
    BY DEF Beside, WorkerRecord, SameMedia, SameLoad, SameIntent
  <2> QED BY <2>1, <2>2 DEF ObserveGeneration
<1>5. \A b \in BOOLEAN : Beside(x, [x EXCEPT !.frozen = b])
  BY DEF Beside, WorkerRecord, SameMedia, SameLoad, SameIntent
<1> QED BY <1>1, <1>2, <1>3, <1>4, <1>5

LEMMA HookSteps ==
    ASSUME EngInv, Hook
    PROVE  /\ StepOK /\ UNCHANGED <<queue, loads, at>>
           /\ SameMedia(w, w') /\ w'.retired = w.retired /\ w'.aim = w.aim
<1>1. w \in WorkerRecord
  BY SMTT(60) DEF EngInv, TypeOK
<1>2. PICK x \in {CapturePosition(w), StartRunning(w)}, b \in BOOLEAN,
           s \in {"Paused", "Playing"} : w' = [x EXCEPT !.byHook = b, !.shown = s]
  <2>1. CASE w.frozen /\ ~w.byHook
    BY <2>1 DEF Hook
  <2>2. CASE ~w.frozen /\ w.byHook
    BY <2>2 DEF Hook
  <2> QED BY <2>1, <2>2 DEF Hook
<1>3. /\ x \in WorkerRecord /\ SameMedia(w, x) /\ SameLoad(w, x) /\ SameIntent(w, x)
      /\ SameFetch(w, x) /\ x.state = w.state /\ x.outage = w.outage
      /\ x.transport = "none" <=> w.transport = "none"
  BY <1>1, <1>2, CaptureIs, StartRunningIs
<1>4. PICK y : y = w'
  OBVIOUS
<1>5. /\ y \in WorkerRecord /\ SameMedia(x, y) /\ SameLoad(x, y) /\ SameIntent(x, y)
      /\ SameFetch(x, y) /\ y.state = x.state /\ y.outage = x.outage
      /\ y.transport = x.transport
  BY ZenonT(60), <1>2, <1>3, <1>4 DEF WorkerRecord, States, SameMedia, SameLoad, SameIntent, SameFetch
<1>6. SameMedia(w, y) /\ SameLoad(w, y) /\ SameIntent(w, y) /\ SameFetch(w, y)
  BY <1>3, <1>5 DEF SameMedia, SameLoad, SameIntent, SameFetch
<1>7. Beside(w, y)
  BY <1>3, <1>5, <1>6 DEF Beside, SameFetch
<1>8. UNCHANGED <<job, at, resume, mending, queue, loads>>
  BY DEF Hook
<1> QED BY <1>4, <1>6, <1>7, <1>8, BesideStep DEF SameFetch

LEMMA FrontEndSteps ==
    ASSUME EngInv, FrontEnd
    PROVE  StepOK
<1>1. w \in WorkerRecord /\ tail \in {NoTail} \union Submission
  BY DEF EngInv, TypeOK
<1>2. UNCHANGED <<job, at, resume, mending>>
  BY DEF FrontEnd, Observe, Interrupt, RaiseFlag, Send, ReachOut
<1>3. \/ w' \in {w, Retire(w), RetireAimed(w), ObserveGeneration(w)}
      \/ \E b \in BOOLEAN : w' = [w EXCEPT !.frozen = b]
  <2>1. ASSUME NEW cmd, NEW kind, Observe(cmd, kind)
        PROVE  w' \in {w, ObserveGeneration(w)}
    BY <2>1 DEF Observe
  <2>2. CASE Interrupt
    BY <2>2 DEF Interrupt
  <2>3. CASE RaiseFlag \/ Send
    BY <2>3 DEF RaiseFlag, Send
  <2>4. CASE ReachOut
    <3>1. tail.cmd \in {"Load", "Seek", "Pause", "Play"}
      BY <2>4 DEF ReachOut, Aimed
    <3>2. CASE tail.cmd = "Load"
      BY <2>4, <3>2 DEF ReachOut
    <3>3. CASE tail.cmd = "Seek"
      BY <2>4, <3>3 DEF ReachOut
    <3>4. CASE tail.cmd = "Pause"
      BY <2>4, <3>4 DEF ReachOut
    <3>5. CASE tail.cmd = "Play"
      BY <2>4, <3>5 DEF ReachOut
    <3> QED BY <3>1, <3>2, <3>3, <3>4, <3>5
  <2> QED BY <2>1, <2>2, <2>3, <2>4 DEF FrontEnd
<1>4. Beside(w, w')
  BY <1>1, <1>3, BesideMoves
<1> QED BY <1>2, <1>4, BesideStep

(* A command joins the queue, a load with the next token. *)
LEMMA SentAnswers ==
    ASSUME NEW q \in Seq(QueuedCommand), NEW n \in Nat, NEW m \in Nat, m <= MaxLoads,
           NEW x \in WorkerRecord, AnswersOK(q, n, x), NEW c \in QueuedCommand,
           \/ c.cmd = "Load" /\ m = n + 1 /\ c.token = m
           \/ c.cmd # "Load" /\ m = n
    PROVE  AnswersOK(Append(q, c), m, x)
<1> DEFINE p == Append(q, c)
<1>1. /\ Len(q) \in Nat /\ DOMAIN q = 1 .. Len(q) /\ DOMAIN p = 1 .. (Len(q) + 1)
      /\ \A i \in 1 .. Len(q) : p[i] = q[i]
      /\ p[Len(q) + 1] = c
  OBVIOUS
<1> HIDE DEF p
<1>2. \A i \in DOMAIN p : (i \in DOMAIN q /\ p[i] = q[i]) \/ (i = Len(q) + 1 /\ p[i] = c)
  <2> TAKE i \in DOMAIN p
  <2>1. i \in 1 .. (Len(q) + 1)
    BY <1>1
  <2>2. i \in 1 .. Len(q) \/ i = Len(q) + 1
    BY <1>1, <2>1
  <2> QED BY <1>1, <2>2
<1>3. \A i \in DOMAIN q : i \in DOMAIN p /\ p[i] = q[i]
  BY <1>1
<1>4. Len(q) + 1 \in DOMAIN p
  BY <1>1
<1>5. \A r : IsQueued(p, r) <=> IsQueued(q, r) \/ (c.cmd = "Load" /\ c.token = r)
  BY <1>1, <1>2, <1>3, <1>4 DEF IsQueued
<1>6. \A i \in DOMAIN p : p[i].cmd = "Load" => p[i].token \in 1 .. m
  BY <1>2 DEF AnswersOK
<1>7. ASSUME NEW i \in DOMAIN p, NEW k \in DOMAIN p,
             p[i].cmd = "Load", p[k].cmd = "Load", p[i].token = p[k].token
      PROVE  i = k
  <2>1. \A e \in DOMAIN q : q[e].cmd = "Load" => q[e].token \in 1 .. n
    BY DEF AnswersOK
  <2>2. CASE i \in DOMAIN q /\ k \in DOMAIN q
    BY <1>3, <1>7, <2>2 DEF AnswersOK
  <2>3. CASE ~(i \in DOMAIN q /\ k \in DOMAIN q)
    BY <1>2, <1>7, <2>1, <2>3
  <2> QED BY <2>2, <2>3
<1>8. x.loading \in 0 .. m /\ ~(x.loading # 0 /\ IsQueued(p, x.loading))
  BY <1>5 DEF AnswersOK
<1>9. ASSUME NEW r \in Tokens
      PROVE  x.outcome[r] = IF r > m \/ r = x.loading \/ IsQueued(p, r) THEN 0 ELSE 1
  <2>1. r \in Nat
    BY DEF Tokens
  <2>2. x.outcome[r] = IF r > n \/ r = x.loading \/ IsQueued(q, r) THEN 0 ELSE 1
    BY DEF AnswersOK
  <2>3. CASE c.cmd # "Load"
    BY <1>5, <2>1, <2>2, <2>3
  <2>4. CASE c.cmd = "Load" /\ m = n + 1 /\ c.token = m
    <3>1. CASE r = m
      BY <1>5, <2>1, <2>2, <2>4, <3>1
    <3>2. CASE r # m
      <4>1. (r > m <=> r > n) /\ (IsQueued(p, r) <=> IsQueued(q, r))
        BY <1>5, <2>1, <2>4, <3>2
      <4> QED BY <2>2, <4>1
    <3> QED BY <3>1, <3>2
  <2> QED BY <2>3, <2>4
<1> QED BY <1>6, <1>7, <1>8, <1>9 DEF AnswersOK, p

(* The shutdown answers what is still queued. *)
LEMMA ShutdownSteps ==
    ASSUME EngInv, TopOfLoop, shutdown
    PROVE  /\ Stands(job', at', mending', w') /\ w' \in WorkerRecord /\ resume' \in BOOLEAN
           /\ IntentStep /\ at' = "gone" /\ queue' = <<>> /\ loads' = loads
           /\ AnswersOK(queue', loads', w')
<1>1. /\ job = "loop" /\ w \in WorkerRecord /\ Rests(w) /\ mending = FALSE
      /\ resume \in BOOLEAN /\ loads \in 0 .. MaxLoads /\ AnswersOK(queue, loads, w)
  BY InLoop DEF TopOfLoop, EngInv, TypeOK
<1> DEFINE owed == {queue[i].token : i \in {i \in DOMAIN queue : queue[i].cmd = "Load"}}
           u == [w EXCEPT !.outage = "none"]
           o == [r \in Tokens |-> IF r \in owed THEN w.outcome[r] + 1 ELSE w.outcome[r]]
<1> PICK t : t = Teardown(u)
  OBVIOUS
<1> PICK x : x = CloseSource(t)
  OBVIOUS
<1> PICK z : z = AdoptState(x, "Idle")
  OBVIOUS
<1>2. u \in WorkerRecord /\ SameMedia(w, u) /\ SameLoad(w, u) /\ SameIntent(w, u)
      /\ u.outage = "none"
  BY <1>1 DEF WorkerRecord, SameMedia, SameLoad, SameIntent
<1>3. t \in WorkerRecord /\ SameMedia(u, t) /\ SameLoad(u, t) /\ SameIntent(u, t)
      /\ t.transport = "none"
  BY <1>2, TeardownIs
<1>4. x \in WorkerRecord /\ SameMedia(t, x) /\ SameLoad(t, x) /\ SameIntent(t, x)
      /\ x.source = "none" /\ x.transport = "none"
  BY <1>3, CloseSourceIs
<1>5. z \in WorkerRecord /\ SameMedia(x, z) /\ SameLoad(x, z) /\ SameIntent(x, z)
      /\ z.source = "none" /\ z.transport = "none" /\ z.state = "Idle"
  BY <1>4, AdoptStateIs DEF States, SameFetch
<1>6. SameMedia(w, z) /\ SameLoad(w, z) /\ SameIntent(w, z)
  BY <1>2, <1>3, <1>4, <1>5 DEF SameMedia, SameLoad, SameIntent
<1>7. /\ job' = "gone" /\ at' = "gone" /\ mending' = FALSE /\ resume' = resume
      /\ queue' = <<>> /\ loads' = loads
  BY <1>1 DEF TopOfLoop, Go, Stand
<1>8. w' = [z EXCEPT !.media = "none",
                     !.outcome = [r \in Tokens |-> IF r \in owed THEN @[r] + 1 ELSE @[r]]]
  BY <1>1 DEF TopOfLoop, Go, Stand
<1>9. o \in [Tokens -> Nat] /\ z.outcome = w.outcome
  BY <1>1, <1>6 DEF WorkerRecord, SameLoad
<1>10. w' = [[z EXCEPT !.media = "none"] EXCEPT !.outcome = o]
  BY ZenonT(60), <1>5, <1>8, <1>9 DEF WorkerRecord
<1> HIDE DEF o
<1> DEFINE v == [z EXCEPT !.media = "none"]
<1>11. v \in WorkerRecord /\ v.media = "none" /\ v.cont = z.cont /\ v.fixed = z.fixed
       /\ SameLoad(z, v) /\ SameIntent(z, v) /\ v.source = "none" /\ v.transport = "none"
       /\ v.state = "Idle"
  BY <1>5 DEF WorkerRecord, SameLoad, SameIntent
<1> HIDE DEF v
<1>12. PICK y : y = w'
  OBVIOUS
<1>13. y \in WorkerRecord /\ y.media = "none" /\ y.cont = z.cont /\ y.fixed = z.fixed
       /\ y.loading = z.loading /\ y.outcome = o /\ SameIntent(z, y) /\ y.source = "none"
       /\ y.transport = "none" /\ y.state = "Idle"
  <2>1. y = [v EXCEPT !.outcome = o]
    BY <1>10, <1>12 DEF v
  <2>2. y \in WorkerRecord
    BY <1>9, <1>11, <2>1 DEF WorkerRecord
  <2>3. y.media = v.media /\ y.cont = v.cont /\ y.fixed = v.fixed /\ y.loading = v.loading
        /\ y.outcome = o /\ SameIntent(v, y) /\ y.source = v.source
        /\ y.transport = v.transport /\ y.state = v.state
    BY <1>9, <1>11, <2>1 DEF WorkerRecord, SameIntent
  <2> QED BY <1>11, <2>2, <2>3 DEF SameLoad, SameIntent
<1>14. y.loading = 0 /\ y.attempt = "no" /\ y.pending = w.pending
       /\ (Indefinite(y) => y.fixed) /\ ~Remote(y)
  BY <1>1, <1>6, <1>13 DEF Rests, SameLoad, SameIntent, SameMedia, Indefinite, Remote
<1>15. PlaceOK("gone", "gone", FALSE) /\ LoadOK("gone", "gone", y)
  BY <1>14 DEF PlaceOK, Opens, Lands, LoadOK
<1>16. SourceOK("gone", "gone", y) /\ AttemptOK("gone", "gone", FALSE, y)
  BY <1>13, <1>14 DEF SourceOK, AttemptOK, Attempts
<1>17. StateOK("gone", "gone", y)
  BY <1>13 DEF StateOK
<1>18. AnswersOK(<<>>, loads, y)
  <2>1. \A r : r \in owed <=> IsQueued(queue, r)
    BY DEF IsQueued
  <2>2. \A r : ~IsQueued(<<>>, r)
    BY DEF IsQueued
  <2>3. ASSUME NEW r \in Tokens
        PROVE  y.outcome[r] = IF r > loads \/ r = y.loading \/ IsQueued(<<>>, r) THEN 0 ELSE 1
    <3>1. w.loading = 0 /\ r # 0 /\ r \in Nat /\ loads \in Nat
      BY <1>1 DEF Rests, Tokens
    <3>2. w.outcome[r] = IF r > loads \/ IsQueued(queue, r) THEN 0 ELSE 1
      BY <1>1, <3>1 DEF AnswersOK
    <3>3. y.outcome[r] = IF r \in owed THEN w.outcome[r] + 1 ELSE w.outcome[r]
      BY <1>13 DEF o
    <3>4. IsQueued(queue, r) => r <= loads
      BY <1>1, <3>1 DEF AnswersOK, IsQueued
    <3> HIDE DEF owed
    <3> QED BY <1>14, <2>1, <2>2, <3>1, <3>2, <3>3, <3>4
  <2> QED BY <1>1, <1>14, <2>2, <2>3 DEF AnswersOK
<1> QED BY <1>1, <1>7, <1>12, <1>13, <1>14, <1>15, <1>16, <1>17, <1>18 DEF Stands, IntentStep

-----------------------------------------------------------------------------
(* The invariant. *)

(* What each step of the worker that takes no command keeps. *)
LEMMA WorkerSteps ==
    ASSUME EngInv,
           NetworkStep \/ (LocalStep /\ ~Dispatch /\ ~(TopOfLoop /\ shutdown))
    PROVE  /\ StepOK
           /\ at' = "open" /\ Remote(w') => ~w'.retired /\ ~w'.aim
           /\ UNCHANGED <<queue, tail, shutdown, submits, loads>> /\ stop' \in BOOLEAN
<1>0. stop \in BOOLEAN /\ shutdown \in BOOLEAN
  BY DEF EngInv, TypeOK
<1>1. CASE OpenEnds
  BY <1>0, <1>1, OpenEndsSteps DEF OpensLive, OpenEnds, front
<1>2. CASE SeekLands
  BY <1>0, <1>2, SeekLandsSteps DEF OpensLive, SeekLands, front
<1>3. CASE SeekCancelled
  BY <1>0, <1>3, SeekCancelledSteps DEF OpensLive, SeekCancelled, front
<1>4. CASE SeekFails
  BY <1>0, <1>4, SeekFailsSteps DEF OpensLive, SeekFails, front
<1>5. CASE ReadFills
  BY <1>0, <1>5, ReadFillsSteps DEF ReadFills, front
<1>6. CASE ReadEndsOfFile
  BY <1>0, <1>6, ReadEndsOfFileSteps DEF ReadEndsOfFile, front
<1>7. CASE ReadFails
  BY <1>0, <1>7, ReadFailsSteps DEF ReadFails, front
<1>8. CASE ConfirmRemoteCompletion
  BY <1>0, <1>8, ConfirmSteps DEF ConfirmRemoteCompletion, front
<1>9. CASE TopOfLoop /\ ~shutdown
  <2>1. UNCHANGED <<tail, shutdown, submits, loads>> /\ stop' = FALSE
    BY <1>9 DEF TopOfLoop
  <2> QED BY <1>9, <2>1, TopOfLoopSteps
<1>10. CASE ServiceFaults
  BY <1>0, <1>10, ServiceFaultsSteps DEF ServiceFaults, front
<1>11. CASE AdmitNothing \/ ReconnectNothing \/ PumpNothing \/ NotAtEnd
  <2>1. UNCHANGED front
    BY <1>11 DEF AdmitNothing, ReconnectNothing, PumpNothing, NotAtEnd
  <2> QED BY <1>0, <1>11, <2>1, LoopMovesOn DEF front
<1>12. CASE StartAttempt
  BY <1>0, <1>12, StartAttemptSteps DEF StartAttempt, front
<1>13. CASE OutageOver
  BY <1>0, <1>13, OutageOverSteps DEF OutageOver, front
<1>14. CASE PumpReads
  BY <1>0, <1>14, PumpReadsSteps DEF PumpReads, front
<1>15. CASE CheckEndOfTrack
  BY <1>0, <1>15, CheckEndOfTrackSteps DEF CheckEndOfTrack, front
<1>16. CASE StartLanding
  BY <1>0, <1>16, StartLandingSteps DEF OpensLive, StartLanding, front
<1>17. CASE DeviceAnswers
  BY <1>0, <1>17, DeviceAnswersSteps DEF OpensLive, DeviceAnswers, front
<1>18. CASE DeviceTimesOut
  BY <1>0, <1>18, DeviceTimesOutSteps DEF OpensLive, DeviceTimesOut, front
<1>19. CASE DeviceDoesNotOpen
  BY <1>0, <1>19, DeviceDoesNotOpenSteps DEF OpensLive, DeviceDoesNotOpen, front
<1>20. CASE ReadRetired
  BY <1>0, <1>20, ReadRetiredSteps DEF ReadRetired, front
<1>21. CASE HandlerDone
  BY <1>0, <1>21, HandlerDoneSteps DEF OpensLive, HandlerDone, front
<1> QED BY <1>1, <1>2, <1>3, <1>4, <1>5, <1>6, <1>7, <1>8, <1>9, <1>10, <1>11, <1>12,
           <1>13, <1>14, <1>15, <1>16, <1>17, <1>18, <1>19, <1>20, <1>21
       DEF NetworkStep, LocalStep

(* The place of the worker is among those the types name. *)
LEMMA PlaceTyped ==
    ASSUME NEW j, NEW a, NEW m, NEW x, Stands(j, a, m, x)
    PROVE  /\ j \in {"loop", "load", "restore", "rejoin", "retry", "recover", "seek", "undo",
                     "reject", "trial", "restart", "rebuild", "pausing", "gone"}
           /\ a \in {"top", "fault", "admit", "reconnect", "pump", "end", "confirm", "read",
                     "open", "land", "seek", "device", "prime", "done", "gone"}
           /\ m \in BOOLEAN
BY DEF Stands, PlaceOK, Opens, Lands, LoopPlaces

LEMMA ObserveKeeps ==
    ASSUME EngInv, FrontEnd, ~Interrupt, ~RaiseFlag, ~Send, ~ReachOut
    PROVE  EngInv'
<1>1. PICK cmd \in Commands, kind \in Media \union {"local"} : Observe(cmd, kind)
  BY DEF FrontEnd
<1>2. Stands(job', at', mending', w') /\ w' \in WorkerRecord /\ LoadStep(w, w')
  BY FrontEndSteps DEF StepOK
<1>3. /\ tail = NoTail /\ submits < MaxSubmits /\ submits' = submits + 1
      /\ UNCHANGED <<queue, stop, shutdown, loads, job, at, resume, mending>>
  BY <1>1 DEF Observe
<1>4. PICK sent : sent = IF cmd # "Toggle" THEN cmd
                         ELSE IF Pausable(w) THEN "Pause" ELSE "Play"
  OBVIOUS
<1>5. tail' = [cmd |-> sent, phase |-> "send", kind |-> kind]
      /\ w' = IF sent \in Aimed THEN ObserveGeneration(w) ELSE w
  BY <1>1, <1>4 DEF Observe
<1>6. sent \in CommandKinds \ {"Toggle"} /\ kind \in MediaKinds
  BY <1>4, EngineAssumption DEF CommandKinds, MediaKinds
<1>7. tail' \in Submission
  BY <1>5, <1>6 DEF Submission
<1>8. w \in WorkerRecord /\ AnswersOK(queue, loads, w) /\ TypeOK /\ OpenOK
      /\ loads \in 0 .. MaxLoads
  BY DEF EngInv, TypeOK
<1>9. AnswersOK(queue', loads', w')
  <2>1. AnswersOK(queue, loads, w')
    BY <1>2, <1>8, AnswersKept
  <2> QED BY <1>3, <2>1
<1>10. TypeOK'
  <2>1. submits' \in 0 .. MaxSubmits
    BY <1>3, <1>8, EngineAssumption DEF TypeOK
  <2> QED BY <1>2, <1>3, <1>7, <1>8, <2>1 DEF TypeOK
<1>11. OpenOK'
  <2>1. tail'.phase = "send" /\ tail.phase = "idle"
    BY <1>3, <1>5 DEF NoTail
  <2>2. Remote(w') = Remote(w) /\ w'.retired = w.retired
    BY <1>5, <1>8 DEF ObserveGeneration, Remote, WorkerRecord
  <2> QED BY <1>3, <1>8, <2>1, <2>2 DEF OpenOK, Interrupted
<1> QED BY <1>2, <1>9, <1>10, <1>11 DEF EngInv

LEMMA SendKeeps ==
    ASSUME EngInv, Send
    PROVE  EngInv'
<1>1. /\ w \in WorkerRecord /\ AnswersOK(queue, loads, w) /\ TypeOK /\ OpenOK
      /\ Stands(job, at, mending, w)
  BY DEF EngInv, TypeOK
<1>2. /\ tail.phase = "send" /\ tail.cmd \notin {"Stop", "Shutdown"}
      /\ UNCHANGED <<stop, shutdown, submits, job, at, resume, mending, w>>
  BY DEF Send
<1>3. tail \in Submission
  BY <1>1, <1>2 DEF TypeOK, NoTail
<1>4. CASE Len(queue) < QueueCap /\ job # "gone" /\ (tail.cmd = "Load" => loads < MaxLoads)
  <2> DEFINE c == [cmd |-> tail.cmd, kind |-> tail.kind, token |-> loads']
  <2>1. /\ loads' = (IF tail.cmd = "Load" THEN loads + 1 ELSE loads)
        /\ queue' = Append(queue, c)
        /\ tail' = IF tail.cmd \in Aimed \union {"Play"}
                   THEN [tail EXCEPT !.phase = "act"] ELSE NoTail
    BY <1>4 DEF Send
  <2>2. loads \in Nat /\ loads' \in 0 .. MaxLoads /\ loads' \in Nat /\ loads' <= MaxLoads
    BY <1>1, <1>4, <2>1, EngineAssumption DEF TypeOK
  <2>3. c \in QueuedCommand
    BY <1>2, <1>3, <2>2 DEF QueuedCommand, Submission
  <2>4. queue \in Seq(QueuedCommand) /\ Len(queue) \in Nat
    BY <1>1 DEF TypeOK
  <2>5. queue' \in Seq(QueuedCommand) /\ Len(queue') <= QueueCap /\ queue' # <<>>
    <3> HIDE DEF c
    <3>1. Append(queue, c) \in Seq(QueuedCommand) /\ Len(Append(queue, c)) = Len(queue) + 1
      BY <2>3, <2>4
    <3>2. QueueCap \in Nat
      BY EngineAssumption
    <3> QED BY <1>4, <2>1, <2>4, <3>1, <3>2
  <2>6. AnswersOK(queue', loads', w)
    <3>1. \/ c.cmd = "Load" /\ loads' = loads + 1 /\ c.token = loads'
          \/ c.cmd # "Load" /\ loads' = loads
      BY <2>1
    <3> HIDE DEF c
    <3> QED BY <1>1, <2>1, <2>2, <2>3, <2>4, <3>1, SentAnswers
  <2>7. tail' \in {NoTail} \union Submission
    BY <1>3, <2>1 DEF Submission
  <2>8. TypeOK'
    BY <1>1, <1>2, <2>2, <2>5, <2>7 DEF TypeOK
  <2>9. OpenOK'
    BY <2>5 DEF OpenOK
  <2> QED BY <1>1, <1>2, <2>6, <2>8, <2>9 DEF EngInv
<1>5. CASE ~(Len(queue) < QueueCap /\ job # "gone" /\ (tail.cmd = "Load" => loads < MaxLoads))
  <2>1. tail' = NoTail /\ UNCHANGED <<queue, loads>>
    BY <1>5 DEF Send
  <2>2. TypeOK'
    BY <1>1, <1>2, <2>1 DEF TypeOK
  <2>3. OpenOK'
    <3>1. tail'.phase = "idle"
      BY <2>1 DEF NoTail
    <3> QED BY <1>1, <1>2, <2>1, <3>1 DEF OpenOK, Interrupted, Remote
  <2> QED BY <1>1, <1>2, <2>1, <2>2, <2>3 DEF EngInv
<1> QED BY <1>4, <1>5

LEMMA InterruptKeeps ==
    ASSUME EngInv, Interrupt \/ RaiseFlag
    PROVE  EngInv'
<1>1. /\ w \in WorkerRecord /\ AnswersOK(queue, loads, w) /\ TypeOK /\ OpenOK
      /\ loads \in 0 .. MaxLoads
  BY DEF EngInv, TypeOK
<1>2. Stands(job', at', mending', w') /\ w' \in WorkerRecord /\ LoadStep(w, w')
  BY FrontEndSteps DEF StepOK, FrontEnd
<1>3. UNCHANGED <<queue, submits, loads, job, at, resume, mending>>
  BY DEF Interrupt, RaiseFlag
<1>4. AnswersOK(queue', loads', w')
  <2>1. AnswersOK(queue, loads, w')
    BY <1>1, <1>2, AnswersKept
  <2> QED BY <1>3, <2>1
<1>5. tail \in Submission
  BY <1>1 DEF TypeOK, NoTail, Interrupt, RaiseFlag
<1>6. CASE Interrupt
  <2>1. tail' = [tail EXCEPT !.phase = "act"] /\ UNCHANGED <<stop, shutdown>>
        /\ tail.cmd \in {"Stop", "Shutdown"}
    BY <1>6 DEF Interrupt
  <2>2. tail' \in Submission /\ tail'.phase = "act" /\ tail'.cmd = tail.cmd
    BY <1>5, <2>1 DEF Submission
  <2>3. TypeOK'
    BY <1>1, <1>2, <1>3, <2>1, <2>2 DEF TypeOK
  <2>4. OpenOK'
    BY <2>1, <2>2 DEF OpenOK, Aimed
  <2> QED BY <1>2, <1>4, <2>3, <2>4 DEF EngInv
<1>7. CASE RaiseFlag
  <2>1. /\ stop' = (stop \/ tail.cmd = "Stop")
        /\ shutdown' = (shutdown \/ tail.cmd = "Shutdown")
        /\ tail' = NoTail /\ tail.cmd \in {"Stop", "Shutdown"}
    BY <1>7 DEF RaiseFlag
  <2>2. stop' \in BOOLEAN /\ shutdown' \in BOOLEAN /\ (stop' \/ shutdown')
    BY <2>1
  <2>3. TypeOK'
    BY <1>1, <1>2, <1>3, <2>1, <2>2 DEF TypeOK
  <2>4. OpenOK'
    BY <2>1, <2>2 DEF OpenOK, NoTail, Interrupted
  <2> QED BY <1>2, <1>4, <2>3, <2>4 DEF EngInv
<1> QED BY <1>6, <1>7

LEMMA ReachOutKeeps ==
    ASSUME EngInv, ReachOut
    PROVE  EngInv'
<1>1. /\ w \in WorkerRecord /\ AnswersOK(queue, loads, w) /\ TypeOK /\ OpenOK
      /\ loads \in 0 .. MaxLoads
  BY DEF EngInv, TypeOK
<1>2. Stands(job', at', mending', w') /\ w' \in WorkerRecord /\ LoadStep(w, w')
  BY FrontEndSteps DEF StepOK, FrontEnd
<1>3. /\ UNCHANGED <<queue, stop, shutdown, submits, loads, job, at, resume, mending>>
      /\ tail.phase = "act" /\ tail.cmd \in Aimed \union {"Play"} /\ tail' = NoTail
  BY DEF ReachOut
<1>4. AnswersOK(queue', loads', w')
  <2>1. AnswersOK(queue, loads, w')
    BY <1>1, <1>2, AnswersKept
  <2> QED BY <1>3, <2>1
<1>5. TypeOK'
  BY <1>1, <1>2, <1>3 DEF TypeOK
<1>6. \/ tail.cmd \in Aimed /\ w' = RetireAimed(w)
      \/ \E b \in BOOLEAN : w' = [w EXCEPT !.frozen = b]
      \/ w' = w
  <2>1. CASE tail.cmd = "Load"
    BY <2>1 DEF ReachOut, Aimed
  <2>2. CASE tail.cmd = "Seek"
    BY <2>2 DEF ReachOut, Aimed
  <2>3. CASE tail.cmd = "Pause"
    BY <2>3 DEF ReachOut, Aimed
  <2>4. CASE tail.cmd = "Play"
    BY <2>4 DEF ReachOut
  <2> QED BY <1>3, <2>1, <2>2, <2>3, <2>4 DEF Aimed
<1>7. Remote(w') = Remote(w)
  BY ZenonT(60), <1>1, <1>6 DEF RetireAimed, Retire, WorkerRecord, Remote
<1>8. w'.retired => w.retired \/ (w.aim /\ tail.cmd \in Aimed)
  BY <1>1, <1>6 DEF RetireAimed, Retire, WorkerRecord
<1>9. tail'.phase = "idle" /\ tail.cmd \notin {"Stop", "Shutdown"}
  BY <1>3 DEF NoTail, Aimed
<1>10. OpenOK'
  <2> SUFFICES ASSUME at = "open", Remote(w), w'.retired
               PROVE  Interrupted' \/ queue' # <<>>
    BY <1>3, <1>7, <1>9 DEF OpenOK
  <2> QED BY <1>1, <1>3, <1>8, <1>9 DEF OpenOK, Interrupted
<1> QED BY <1>2, <1>4, <1>5, <1>10 DEF EngInv

LEMMA HookKeeps ==
    ASSUME EngInv, Hook
    PROVE  EngInv'
<1>1. /\ w \in WorkerRecord /\ AnswersOK(queue, loads, w) /\ TypeOK /\ OpenOK
      /\ loads \in 0 .. MaxLoads
  BY DEF EngInv, TypeOK
<1>2. /\ Stands(job', at', mending', w') /\ w' \in WorkerRecord /\ LoadStep(w, w')
      /\ SameMedia(w, w') /\ w'.retired = w.retired /\ w'.aim = w.aim
  BY HookSteps DEF StepOK
<1>3. UNCHANGED <<queue, tail, stop, shutdown, submits, loads, job, at, resume, mending>>
  BY DEF Hook
<1>4. AnswersOK(queue', loads', w')
  <2>1. AnswersOK(queue, loads, w')
    BY <1>1, <1>2, AnswersKept
  <2> QED BY <1>3, <2>1
<1>5. TypeOK'
  BY <1>1, <1>2, <1>3 DEF TypeOK
<1>6. OpenOK'
  BY <1>1, <1>2, <1>3 DEF OpenOK, Interrupted, SameMedia, Remote
<1> QED BY <1>2, <1>4, <1>5, <1>6 DEF EngInv

LEMMA WorkerKeeps ==
    ASSUME EngInv, NetworkStep \/ LocalStep
    PROVE  EngInv' /\ IntentStep
<1>1. /\ w \in WorkerRecord /\ AnswersOK(queue, loads, w) /\ TypeOK
      /\ loads \in 0 .. MaxLoads
  BY DEF EngInv, TypeOK
<1>2. CASE NetworkStep \/ (LocalStep /\ ~Dispatch /\ ~(TopOfLoop /\ shutdown))
  <2>1. /\ StepOK
        /\ at' = "open" /\ Remote(w') => ~w'.retired /\ ~w'.aim
        /\ UNCHANGED <<queue, tail, shutdown, submits, loads>> /\ stop' \in BOOLEAN
    BY <1>2, WorkerSteps
  <2>2. AnswersOK(queue', loads', w')
    <3>1. AnswersOK(queue, loads, w')
      BY <1>1, <2>1, AnswersKept DEF StepOK
    <3> QED BY <2>1, <3>1
  <2>3. TypeOK'
    <3>1. w' \in WorkerRecord /\ resume' \in BOOLEAN /\ Stands(job', at', mending', w')
      BY <2>1 DEF StepOK
    <3> QED BY <1>1, <2>1, <3>1, PlaceTyped DEF TypeOK
  <2>4. OpenOK'
    BY <2>1 DEF OpenOK
  <2> QED BY <2>1, <2>2, <2>3, <2>4 DEF EngInv, StepOK
<1>3. CASE Dispatch
  <2>1. /\ Stands(job', at', mending', w') /\ w' \in WorkerRecord /\ resume' \in BOOLEAN
        /\ IntentStep /\ OpensLive
        /\ queue' \in Seq(QueuedCommand) /\ Len(queue') <= QueueCap
        /\ AnswersOK(queue', loads', w')
    BY <1>3, DispatchSteps
  <2>2. UNCHANGED <<tail, stop, shutdown, submits, loads>>
    BY <1>3 DEF Dispatch
  <2>3. TypeOK'
    BY <1>1, <2>1, <2>2, PlaceTyped DEF TypeOK
  <2>4. OpenOK'
    BY <2>1 DEF OpenOK, OpensLive
  <2> QED BY <2>1, <2>3, <2>4 DEF EngInv
<1>4. CASE TopOfLoop /\ shutdown
  <2>1. /\ Stands(job', at', mending', w') /\ w' \in WorkerRecord /\ resume' \in BOOLEAN
        /\ IntentStep /\ at' = "gone" /\ queue' = <<>> /\ loads' = loads
        /\ AnswersOK(queue', loads', w')
    BY <1>4, ShutdownSteps
  <2>2. UNCHANGED <<tail, shutdown, submits>> /\ stop' = FALSE
    BY <1>4 DEF TopOfLoop
  <2>3. queue' \in Seq(QueuedCommand) /\ Len(queue') <= QueueCap
    BY <2>1, EngineAssumption
  <2>4. TypeOK'
    BY <1>1, <2>1, <2>2, <2>3, PlaceTyped DEF TypeOK
  <2>5. OpenOK'
    BY <2>1 DEF OpenOK
  <2> QED BY <2>1, <2>4, <2>5 DEF EngInv
<1> QED BY <1>2, <1>3, <1>4

LEMMA EngineStarts == Init => EngInv
<1> SUFFICES ASSUME Init PROVE EngInv
  OBVIOUS
<1>1. MaxLoads \in Nat /\ MaxSubmits \in Nat /\ QueueCap \in Nat
  BY EngineAssumption
<1>2. w \in WorkerRecord
  BY <1>1 DEF Init, WorkerRecord, States, MediaKinds, Tokens
<1>3. TypeOK
  <2>1. queue \in Seq(QueuedCommand) /\ Len(queue) <= QueueCap
    BY <1>1 DEF Init
  <2>2. tail \in {NoTail} \union Submission
        /\ {stop, shutdown, resume, mending} \subseteq BOOLEAN
    BY DEF Init
  <2>3. submits \in 0 .. MaxSubmits /\ loads \in 0 .. MaxLoads
    BY <1>1 DEF Init
  <2>4. job = "loop" /\ at = "top"
    BY DEF Init
  <2> QED BY <1>2, <2>1, <2>2, <2>3, <2>4 DEF TypeOK
<1>4. PlaceOK(job, at, mending) /\ LoadOK(job, at, w)
  BY DEF Init, PlaceOK, LoopPlaces, Opens, Lands, LoadOK
<1>5. SourceOK(job, at, w) /\ AttemptOK(job, at, mending, w)
  BY DEF Init, SourceOK, AttemptOK, Attempts, Remote, Indefinite
<1>6. StateOK(job, at, w)
  BY DEF Init, StateOK
<1>7. AnswersOK(queue, loads, w)
  <2>1. queue = <<>> /\ loads = 0 /\ w.loading = 0
    BY DEF Init
  <2>2. \A r \in Tokens : w.outcome[r] = 0 /\ r > 0
    BY DEF Init, Tokens
  <2> QED BY <2>1, <2>2 DEF AnswersOK
<1>8. OpenOK
  BY DEF Init, OpenOK
<1> QED BY <1>3, <1>4, <1>5, <1>6, <1>7, <1>8 DEF EngInv, Stands

(* Every step keeps the invariant, and the stored intent with it. *)
LEMMA EngineKeeps == EngInv /\ [Next]_vars => EngInv' /\ (IntentStep \/ UNCHANGED vars)
<1> SUFFICES ASSUME EngInv, [Next]_vars
             PROVE  EngInv' /\ (IntentStep \/ UNCHANGED vars)
  OBVIOUS
<1>1. CASE FrontEnd
  <2>1. IntentStep
    BY <1>1, FrontEndSteps DEF StepOK
  <2>2. EngInv'
    BY <1>1, ObserveKeeps, InterruptKeeps, SendKeeps, ReachOutKeeps
  <2> QED BY <2>1, <2>2
<1>2. CASE Hook
  BY <1>2, HookSteps, HookKeeps DEF StepOK
<1>3. CASE NetworkStep \/ LocalStep
  BY <1>3, WorkerKeeps
<1>4. CASE UNCHANGED vars
  BY <1>4 DEF vars, EngInv, TypeOK, OpenOK, Interrupted, Remote, Stands, PlaceOK, SourceOK,
              AttemptOK, StateOK, LoadOK, AnswersOK, IsQueued, Indefinite, Probed
<1> QED BY <1>1, <1>2, <1>3, <1>4 DEF Next

(* The worker stands where its fields say, at every interleaving of the front *)
(* end, the wait hook and the network with it.                                *)
THEOREM EngineInvariant == Spec => []EngInv
BY EngineStarts, EngineKeeps, PTL DEF Spec

(* Every accepted load is answered exactly once, and not while it is queued   *)
(* or open: by a Loaded, a cancellation, a failure or the shutdown's drain.   *)
THEOREM EveryLoadIsAnsweredOnce == Spec => []LoadAnsweredOnce
<1>1. EngInv => LoadAnsweredOnce
  <2> SUFFICES ASSUME EngInv, NEW r \in 1 .. loads
               PROVE  w.outcome[r] = IF w.loading = r \/ \E i \in DOMAIN queue :
                                            queue[i].cmd = "Load" /\ queue[i].token = r
                                     THEN 0 ELSE 1
    BY DEF LoadAnsweredOnce
  <2>1. loads \in 0 .. MaxLoads /\ AnswersOK(queue, loads, w) /\ MaxLoads \in Nat
    BY EngineAssumption DEF EngInv, TypeOK
  <2>2. r \in Tokens /\ ~(r > loads)
    BY <2>1 DEF Tokens
  <2> QED BY <2>1, <2>2 DEF AnswersOK, IsQueued
<1> QED BY <1>1, EngineInvariant, PTL

(* Between handlers, a session that shows Reconnecting has its next attempt   *)
(* scheduled and holds no dead connection.                                    *)
THEOREM EveryRecoveryIsScheduled == Spec => []RecoveryIsScheduled
<1>1. EngInv => RecoveryIsScheduled
  BY InLoop DEF RecoveryIsScheduled, AtTop, Rests
<1> QED BY <1>1, EngineInvariant, PTL

(* Between handlers nothing is left open: no device stream behind a closed    *)
(* session, no fetch that nothing reads.                                      *)
THEOREM EngineLeavesNothingOpen == Spec => []NothingLeftOpen
<1>1. EngInv => NothingLeftOpen
  <2> SUFFICES ASSUME EngInv PROVE NothingLeftOpen
    OBVIOUS
  <2>1. TypeOK
    BY DEF EngInv
  <2>2. AtTop => Rests(w)
    BY InLoop DEF AtTop
  <2>3. ClosedHoldsNothing /\ NoOrphanFetch
    BY <2>2 DEF ClosedHoldsNothing, NoOrphanFetch, Rests, Closed
  <2> QED BY <2>1, <2>3 DEF NothingLeftOpen
<1> QED BY <1>1, EngineInvariant, PTL

(* An open in progress is cancelled only for a request the worker has still   *)
(* to take: a retirement that was aimed at an earlier generation misses it.   *)
THEOREM OpensAreCancelledByRequests == Spec => []CancelledByARequest
<1>1. EngInv => CancelledByARequest
  <2> SUFFICES ASSUME EngInv, at = "open", Remote(w), w.retired
               PROVE  Interrupted \/ tail # NoTail \/ queue # <<>>
    BY DEF CancelledByARequest
  <2> QED BY DEF EngInv, OpenOK, NoTail
<1> QED BY <1>1, EngineInvariant, PTL

(* A seek or a restart stored for later is given up only to a landing, to     *)
(* another load or to a station's live edge.                                  *)
THEOREM StoredIntentIsKept == Spec => IntentKept
<1>1. EngInv /\ [Next]_vars =>
        [w.pending # "none" /\ w'.pending = "none"
           => w'.loading # 0 \/ Indefinite(w) \/ w'.source # "none"]_vars
  BY EngineKeeps DEF IntentStep
<1> QED BY <1>1, EngineInvariant, PTL DEF Spec, IntentKept
=============================================================================
