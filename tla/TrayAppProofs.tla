---------------------------- MODULE TrayAppProofs ----------------------------
(***************************************************************************)
(* Proofs about TrayApp, for all services, any number of clicks and of     *)
(* changes by others, and every old login entry.                           *)
(*                                                                         *)
(* The queue comes first: where the answers in it are after an event is    *)
(* added or taken.  Then the invariant, and what the parser of the login   *)
(* entry knows after each line.                                            *)
(***************************************************************************)
EXTENDS TrayApp, SequenceTheorems, WellFoundedInduction, TLAPS

\* What stopped a service is a restart that is to start it, and a login entry is
\* renamed into place once it is complete, before the old one goes.
IInv ==
  /\ TypeOK
  /\ DownHasACause
  /\ \A c \in commands : Restarting(c) => c.item.control = "restart"
  /\ writing = "publish" => temp = "complete"
  /\ writing = "legacy" => entry = "complete"

-----------------------------------------------------------------------------
(* The queue                                                               *)

AnswersIn(q) == {i \in DOMAIN q : q[i].type = "status"}

LEMMA EventFields ==
  ASSUME NEW e \in Events
  PROVE  /\ e.type = "click" => e.item \in Items /\ e.id \in 1 .. MaxInputs
         /\ e.type = "status" => e.found \in [Modes -> Statuses]
BY DEF Events

LEMMA ItemFields ==
  ASSUME NEW item \in Items, item.control \in Controls
  PROVE  item.mode \in Modes
BY DEF Items, Controls

LEMMA SimpleEvents ==
  ASSUME NEW type \in {"setup", "quit", "refresh", "message"}
  PROVE  Simple(type) \in Events /\ Simple(type).type = type
BY DEF Simple, Events

LEMMA AnswersAfterAppend ==
  ASSUME NEW q \in Seq(Events), NEW e \in Events
  PROVE  /\ Append(q, e) \in Seq(Events)
         /\ e.type # "status" => AnswersIn(Append(q, e)) = AnswersIn(q)
         /\ AnswersIn(q) = {} /\ e.type = "status" => AnswersIn(Append(q, e)) = {Len(q) + 1}
<1>1. /\ Append(q, e) \in Seq(Events) /\ Len(q) \in Nat
      /\ DOMAIN q = 1 .. Len(q) /\ DOMAIN Append(q, e) = 1 .. Len(q) + 1
      /\ Append(q, e)[Len(q) + 1] = e /\ \A i \in 1 .. Len(q) : Append(q, e)[i] = q[i]
  BY AppendProperties, LenProperties
<1>. QED
  BY <1>1 DEF AnswersIn

LEMMA AnswersAfterTail ==
  ASSUME NEW q \in Seq(Events), q # <<>>
  PROVE  /\ Head(q) \in Events /\ Tail(q) \in Seq(Events)
         /\ \A i \in AnswersIn(Tail(q)) : i + 1 \in AnswersIn(q)
         /\ Head(q).type = "status" => 1 \in AnswersIn(q)
         /\ Head(q).type # "status" /\ AnswersIn(Tail(q)) = {} => AnswersIn(q) = {}
         /\ AnswersIn(Tail(q)) \subseteq Nat \ {0}
<1>1. /\ Head(q) \in Events /\ Tail(q) \in Seq(Events) /\ Len(q) \in Nat \ {0}
      /\ DOMAIN q = 1 .. Len(q) /\ Head(q) = q[1] /\ Len(Tail(q)) = Len(q) - 1
      /\ DOMAIN Tail(q) = 1 .. Len(q) - 1 /\ \A i \in 1 .. Len(q) - 1 : Tail(q)[i] = q[i + 1]
  BY HeadTailProperties, LenProperties, EmptySeq
<1>2. ASSUME NEW i \in AnswersIn(q), i # 1 PROVE i - 1 \in AnswersIn(Tail(q))
  BY <1>1, <1>2 DEF AnswersIn
<1>. QED
  BY <1>1, <1>2 DEF AnswersIn

-----------------------------------------------------------------------------
(* One answer is coming                                                    *)

\* OneAnswerComing of a queue that is given.
OneComing(flag, qs, q) ==
  /\ \A r, t \in qs : r = t
  /\ \A i, j \in AnswersIn(q) : i = j
  /\ qs = {} \/ AnswersIn(q) = {}
  /\ flag <=> qs # {} \/ AnswersIn(q) # {}

LEMMA OneComingIsOne == OneAnswerComing <=> OneComing(inFlight, queries, queue)
BY DEF OneAnswerComing, OneComing, StatusAt, AnswersIn

LEMMA EventTaken ==
  ASSUME NEW flag \in BOOLEAN, NEW qs, NEW q \in Seq(Events), q # <<>>,
         OneComing(flag, qs, q), Head(q).type # "status"
  PROVE  OneComing(flag, qs, Tail(q))
<1>1. \A i \in AnswersIn(Tail(q)) : i \in Nat /\ i + 1 \in AnswersIn(q)
  BY AnswersAfterTail
<1>2. AnswersIn(Tail(q)) = {} <=> AnswersIn(q) = {}
  BY <1>1, AnswersAfterTail
<1>3. \A i, j \in AnswersIn(Tail(q)) : i + 1 = j + 1
  BY <1>1 DEF OneComing
<1>. QED
  BY <1>1, <1>2, <1>3 DEF OneComing

LEMMA AnswerTaken ==
  ASSUME NEW flag \in BOOLEAN, NEW qs, NEW q \in Seq(Events), q # <<>>,
         OneComing(flag, qs, q), Head(q).type = "status"
  PROVE  OneComing(FALSE, qs, Tail(q))
<1>1. 1 \in AnswersIn(q) /\ \A i \in AnswersIn(Tail(q)) : i \in Nat \ {0} /\ i + 1 \in AnswersIn(q)
  BY AnswersAfterTail
<1>2. AnswersIn(Tail(q)) = {}
  BY <1>1 DEF OneComing
<1>. QED
  BY <1>1, <1>2 DEF OneComing

LEMMA EventAdded ==
  ASSUME NEW flag \in BOOLEAN, NEW qs, NEW q \in Seq(Events), NEW e \in Events,
         OneComing(flag, qs, q), e.type # "status"
  PROVE  Append(q, e) \in Seq(Events) /\ OneComing(flag, qs, Append(q, e))
BY AnswersAfterAppend DEF OneComing

\* refresh_status starts a query only where none is under way.
LEMMA RefreshKeepsOne ==
  ASSUME NEW q \in Seq(Events), OneComing(inFlight, queries, q), inFlight \in BOOLEAN,
         queries \subseteq Queries, RefreshStatus
  PROVE  /\ OneComing(inFlight', queries', q)
         /\ inFlight' \in BOOLEAN /\ queries' \subseteq Queries
<1>1. NotRead \in Queries
  BY DEF NotRead, Queries
<1>. QED
  BY <1>1 DEF RefreshStatus, OneComing

-----------------------------------------------------------------------------
(* The steps                                                               *)

LEMMA InitIInv == Init => IInv
<1> SUFFICES ASSUME Init
             PROVE  IInv
  OBVIOUS
<1>1. AnswersIn(queue) = {} /\ queue \in Seq(Events)
  BY DEF Init, AnswersIn
<1>2. OneAnswerComing
  BY <1>1, OneComingIsOne DEF Init, OneComing
<1>3. legacy \in Files \cup {NoFile}
  BY DEF Init
<1>4. services \in [Modes -> States] /\ menu \in [Modes -> Statuses \cup {"unknown"}]
  BY DEF Init, Statuses, States
<1>5. queries \subseteq Queries /\ commands \subseteq Commands /\ excused \subseteq Modes
      /\ (\A m \in excused : Down(m)) /\ inputs \in 0 .. MaxInputs
  BY TrayAssumption DEF Init
<1>6. TypeOK
  BY <1>1, <1>2, <1>3, <1>4, <1>5 DEF Init, TypeOK
<1>. QED
  BY <1>6 DEF Init, IInv, DownHasACause

\* The process ends: the commands of the tray go, and what they had stopped is
\* excused.
LEMMA ExitKeeps ==
  ASSUME IInv, Exit
  PROVE  IInv'
<1>1. queue' = <<>> /\ queries' = {} /\ inFlight' = FALSE
  BY DEF Exit
<1>2. OneAnswerComing'
  BY <1>1 DEF OneAnswerComing, StatusAt
<1>3. ASSUME NEW c \in commands, Restarting(c) PROVE c.item.mode \in Modes
  BY <1>3, ItemFields DEF IInv, TypeOK, Commands, Controls
<1>4. TypeOK'
  <2>0. <<>> \in Seq(Events)
    OBVIOUS
  <2>1. queue' \in Seq(Events) /\ queries' \subseteq Queries /\ inFlight' \in BOOLEAN
    BY <1>1, <2>0
  <2>2. menu' \in [Modes -> Statuses \cup {"unknown"}]
    BY DEF Exit
  <2>3. commands' \subseteq Commands
    BY DEF Exit, IInv, TypeOK
  <2>4. excused' \subseteq Modes /\ \A m \in excused' : Down(m)
    BY <1>3 DEF Exit, Excuse, IInv, TypeOK
  <2>5. /\ stage' = "absent" /\ message' = "ready" /\ temp' = "none" /\ writing' = "no"
        /\ UNCHANGED <<platform, elevated, services, entry, legacy, inputs>>
    BY DEF Exit, host
  <2>. QED
    BY <1>2, <2>1, <2>2, <2>3, <2>4, <2>5 DEF IInv, TypeOK, Down
<1>5. DownHasACause'
  <2> SUFFICES ASSUME NEW m \in Modes, services'[m] # "running", m \notin excused'
               PROVE  \E c \in commands' : Restarting(c) /\ c.item.mode = m
    BY DEF DownHasACause, Down
  <2>0. Down(m) /\ m \notin excused
    BY DEF Exit, Excuse, Down
  <2>1. PICK c \in commands : Restarting(c) /\ c.item.mode = m
    BY <2>0 DEF IInv, DownHasACause
  <2>2. c \in commands'
    BY <2>0, <2>1 DEF Exit, Excuse
  <2>. QED
    BY <2>1, <2>2
<1>. QED
  BY <1>4, <1>5 DEF IInv, Exit

\* What changes neither the services nor the commands nor the login entry.
LEMMA EventStep ==
  ASSUME IInv, UNCHANGED <<host, machine, commands, login>>,
         stage' \in {"absent", "starting", "running"},
         menu' \in [Modes -> Statuses \cup {"unknown"}],
         message' \in {"ready", "requested", "answered"},
         inFlight' \in BOOLEAN, queries' \subseteq Queries, queue' \in Seq(Events),
         OneComing(inFlight', queries', queue'), inputs' \in 0 .. MaxInputs
  PROVE  IInv'
<1>1. OneAnswerComing'
  BY DEF OneAnswerComing, OneComing, StatusAt, AnswersIn
<1>2. TypeOK'
  BY <1>1 DEF IInv, TypeOK, Down, host, machine, login
<1>. QED
  BY <1>2 DEF IInv, DownHasACause, Down, machine, login

LEMMA LoopKeeps ==
  ASSUME IInv, Launch \/ Tick \/ CreateTrayIcon \/ HandleRefresh \/ ApplyStatus \/ SetMessage
  PROVE  IInv'
<1>1. OneComing(inFlight, queries, queue) /\ queue \in Seq(Events) /\ queries \subseteq Queries
      /\ inFlight \in BOOLEAN /\ stage \in {"absent", "starting", "running"}
      /\ menu \in [Modes -> Statuses \cup {"unknown"}]
      /\ message \in {"ready", "requested", "answered"} /\ inputs \in 0 .. MaxInputs
  BY OneComingIsOne DEF IInv, TypeOK
<1>2. CASE Launch
  BY <1>1, <1>2, EventStep DEF Launch, app
<1>3. CASE Tick
  <2>1. queue' = Append(queue, Simple("refresh"))
    BY <1>3 DEF Tick
  <2>2. queue' \in Seq(Events) /\ OneComing(inFlight, queries, queue')
    BY <1>1, <2>1, SimpleEvents, EventAdded
  <2>. QED
    BY <1>1, <1>3, <2>2, EventStep DEF Tick
<1>4. CASE CreateTrayIcon
  <2>1. /\ OneComing(inFlight', queries', queue)
        /\ inFlight' \in BOOLEAN /\ queries' \subseteq Queries
    BY <1>1, <1>4, RefreshKeepsOne DEF CreateTrayIcon
  <2>. QED
    BY <1>1, <1>4, <2>1, EventStep DEF CreateTrayIcon
<1>5. ASSUME NEW type, Handled(type)
      PROVE  /\ queue # <<>> /\ Head(queue) \in Events /\ Head(queue).type = type
             /\ queue' = Tail(queue) /\ queue' \in Seq(Events)
             /\ UNCHANGED <<host, stage, inputs>>
             /\ type # "status" => OneComing(inFlight, queries, queue')
             /\ type = "status" => OneComing(FALSE, queries, queue')
  <2>1. queue # <<>> /\ Head(queue).type = type /\ queue' = Tail(queue)
        /\ UNCHANGED <<host, stage, inputs>>
    BY <1>5 DEF Handled, Handling
  <2>. QED
    BY <1>1, <2>1, AnswersAfterTail, EventTaken, AnswerTaken
<1>6. CASE HandleRefresh
  <2>1. /\ OneComing(inFlight', queries', queue')
        /\ inFlight' \in BOOLEAN /\ queries' \subseteq Queries
    BY <1>1, <1>5, <1>6, RefreshKeepsOne DEF HandleRefresh
  <2>. QED
    BY <1>1, <1>5, <1>6, <2>1, EventStep DEF HandleRefresh
<1>7. CASE ApplyStatus
  <2>1. menu' \in [Modes -> Statuses]
    BY <1>5, <1>7, EventFields DEF ApplyStatus
  <2>2. inFlight' = FALSE /\ UNCHANGED <<machine, message, queries, commands, login>>
    BY <1>7 DEF ApplyStatus
  <2>3. queue' \in Seq(Events) /\ OneComing(FALSE, queries, queue') /\ UNCHANGED <<host, stage, inputs>>
    BY <1>5, <1>7 DEF ApplyStatus
  <2>4. menu' \in [Modes -> Statuses \cup {"unknown"}]
    BY <2>1
  <2>. QED
    BY <1>1, <2>2, <2>3, <2>4, EventStep
<1>8. CASE SetMessage
  BY <1>1, <1>5, <1>8, EventStep DEF SetMessage
<1>. QED
  BY <1>2, <1>3, <1>4, <1>6, <1>7, <1>8

\* A click enters the queue with the number of the input that it is.
LEMMA InputKeeps ==
  ASSUME IInv,
         \/ \E item \in Items : Click(item)
         \/ \E type \in {"setup", "quit"} : ClickOther(type)
  PROVE  IInv'
<1>1. PICK e : /\ Send(e)
               /\ \/ \E item \in Items : e = [type |-> "click", item |-> item, id |-> inputs + 1]
                  \/ e \in {Simple("setup"), Simple("quit")}
  BY DEF Click, ClickOther
<1>2. inputs' \in 0 .. MaxInputs /\ inputs + 1 \in 1 .. MaxInputs
  BY <1>1, TrayAssumption DEF Send, IInv, TypeOK
<1>3. e \in Events /\ e.type # "status"
  <2>1. ASSUME NEW item \in Items
        PROVE  /\ [type |-> "click", item |-> item, id |-> inputs + 1] \in Events
               /\ [type |-> "click", item |-> item, id |-> inputs + 1].type = "click"
    BY <1>2 DEF Events
  <2>. QED
    BY <1>1, <2>1, SimpleEvents
<1>4. queue' \in Seq(Events) /\ OneComing(inFlight, queries, queue')
  BY <1>1, <1>3, EventAdded, OneComingIsOne DEF Send, IInv, TypeOK
<1>. QED
  BY <1>1, <1>2, <1>4, EventStep DEF Send, IInv, TypeOK

LEMMA QueryKeeps ==
  ASSUME IInv, QueryStep
  PROVE  IInv'
<1>1. PICK q \in queries :
        IF Unanswered(q) # {}
        THEN /\ \E m \in Unanswered(q) : queries' = (queries \ {q}) \cup {Read(q, m)}
             /\ UNCHANGED queue
        ELSE /\ queries' = queries \ {q}
             /\ queue' = Append(queue, [type |-> "status", found |-> q])
  BY DEF QueryStep
<1>2. UNCHANGED <<host, stage, machine, menu, message, inFlight, commands, login, inputs>>
  BY DEF QueryStep
<1>3. /\ q \in [Modes -> Statuses \cup {"unread", "installed"}] /\ queue \in Seq(Events)
      /\ queries \subseteq Queries /\ inFlight \in BOOLEAN /\ OneComing(inFlight, queries, queue)
  BY OneComingIsOne DEF IInv, TypeOK, Queries
<1>4. queries = {q} /\ AnswersIn(queue) = {} /\ inFlight = TRUE
  BY <1>3 DEF OneComing
<1>5. ASSUME queries' \subseteq Queries, queue' \in Seq(Events),
             OneComing(inFlight, queries', queue')
      PROVE  IInv'
  BY <1>2, <1>5, EventStep DEF IInv, TypeOK
<1>6. CASE Unanswered(q) # {}
  <2>1. PICK m \in Unanswered(q) : queries' = (queries \ {q}) \cup {Read(q, m)}
    BY <1>1, <1>6
  <2>2. Read(q, m) \in Queries
    BY <1>3 DEF Read, Queries, Statuses
  <2>3. queries' = {Read(q, m)} /\ queue' = queue
    BY <1>1, <1>4, <1>6, <2>1
  <2>4. OneComing(inFlight, queries', queue')
    BY <1>4, <2>3 DEF OneComing
  <2>. QED
    BY <1>3, <1>5, <2>2, <2>3, <2>4
<1>7. CASE Unanswered(q) = {}
  <2> DEFINE e == [type |-> "status", found |-> q]
  <2>1. q \in [Modes -> Statuses]
    BY <1>3, <1>7 DEF Unanswered
  <2>2. e \in Events /\ e.type = "status"
    BY <2>1 DEF Events
  <2>3. queries' = {} /\ queue' = Append(queue, e)
    BY <1>1, <1>4, <1>7
  <2>. HIDE DEF e
  <2>4. queue' \in Seq(Events) /\ AnswersIn(queue') = {Len(queue) + 1}
    BY <1>3, <1>4, <2>2, <2>3, AnswersAfterAppend
  <2>5. OneComing(inFlight, queries', queue')
    BY <1>4, <2>3, <2>4 DEF OneComing
  <2>. QED
    BY <1>5, <2>3, <2>4, <2>5
<1>. QED
  BY <1>6, <1>7

\* A click becomes a command.
LEMMA ClickKeeps ==
  ASSUME IInv, HandleClick
  PROVE  IInv'
<1>1. /\ queue # <<>> /\ Head(queue).type = "click" /\ queue' = Tail(queue)
      /\ UNCHANGED <<host, stage, inputs>>
      /\ UNCHANGED <<machine, menu, inFlight, queries, login>>
  BY DEF HandleClick, Handled, Handling
<1>2. Head(queue) \in Events /\ queue' \in Seq(Events)
      /\ OneComing(inFlight, queries, queue')
  BY <1>1, AnswersAfterTail, EventTaken, OneComingIsOne DEF IInv, TypeOK
<1>3. Head(queue).item \in Items /\ Head(queue).id \in 1 .. MaxInputs
  BY <1>1, <1>2, EventFields
<1>4. message' \in {"ready", "requested", "answered"}
  BY DEF HandleClick
<1>5. CASE commands' = commands
  BY <1>1, <1>2, <1>4, <1>5, EventStep DEF IInv, TypeOK
<1>6. ASSUME NEW c, c = [id |-> Head(queue).id, item |-> Head(queue).item, owner |-> "tray",
                         step |-> IF elevated \/ Head(queue).item.control = "update"
                                  THEN "run" ELSE "open"],
             commands' = commands \cup {c}
      PROVE  IInv'
  <2>1. c \in Commands /\ ~Restarting(c)
    BY <1>3, <1>6 DEF Commands, Restarting
  <2>2. commands' \subseteq Commands
    BY <1>6, <2>1 DEF IInv, TypeOK
  <2>3. OneAnswerComing'
    BY <1>1, <1>2 DEF OneAnswerComing, OneComing, StatusAt, AnswersIn
  <2>4. TypeOK'
    BY <1>1, <1>2, <1>4, <2>2, <2>3 DEF IInv, TypeOK, Down, host, machine, login
  <2>. QED
    BY <1>1, <1>6, <2>1, <2>4 DEF IInv, DownHasACause, Down, machine, login
<1>. QED
  BY <1>5, <1>6 DEF HandleClick

-----------------------------------------------------------------------------
(* The commands                                                            *)

LEMMA Reported ==
  ASSUME IInv, NEW c \in commands, Report(c)
  PROVE  queue' \in Seq(Events) /\ OneComing(inFlight, queries, queue')
<1>1. queue \in Seq(Events) /\ inFlight \in BOOLEAN /\ OneComing(inFlight, queries, queue)
  BY OneComingIsOne DEF IInv, TypeOK
<1> DEFINE answered == Append(queue, Simple("message"))
<1>2. answered \in Seq(Events) /\ OneComing(inFlight, queries, answered)
  BY <1>1, SimpleEvents, EventAdded
<1>3. answered \o <<>> = answered /\ answered \o <<Simple("refresh")>> = Append(answered, Simple("refresh"))
  BY <1>2, SimpleEvents, ConcatEmptySeq, AppendIsConcat
<1>. HIDE DEF answered
<1>4. Append(answered, Simple("refresh")) \in Seq(Events)
      /\ OneComing(inFlight, queries, Append(answered, Simple("refresh")))
  BY <1>1, <1>2, SimpleEvents, EventAdded
<1>5. queue' \in {queue, answered, Append(answered, Simple("refresh"))}
  BY <1>3 DEF Report, answered
<1>. QED
  BY <1>1, <1>2, <1>4, <1>5

LEMMA CommandFields ==
  ASSUME IInv, NEW c \in commands
  PROVE  /\ c \in Commands /\ c.step \in {"open", "run", "wait", "start"} /\ c.item \in Items
         /\ c.item.control \in Controls => c.item.mode \in Modes
         /\ Restarting(c) => c.item.control = "restart"
<1>1. c \in Commands
  BY DEF IInv, TypeOK
<1>2. c.item \in Items /\ c.step \in {"open", "run", "wait", "start"}
  BY <1>1 DEF Commands
<1>. QED
  BY <1>1, <1>2, ItemFields DEF IInv

\* What changes the services, the commands and the queue.
LEMMA CommandStepType ==
  ASSUME IInv, UNCHANGED <<host, stage, menu, message, inFlight, queries, login, inputs>>,
         queue' \in Seq(Events), OneComing(inFlight, queries, queue'),
         commands' \subseteq Commands,
         \A c \in commands' : Restarting(c) => c.item.control = "restart",
         services' \in [Modes -> States], excused' \subseteq Modes,
         \A m \in excused' : services'[m] # "running", DownHasACause'
  PROVE  IInv'
<1>1. OneAnswerComing'
  BY DEF OneAnswerComing, OneComing, StatusAt, AnswersIn
<1>2. TypeOK'
  BY <1>1 DEF IInv, TypeOK, Down, host, login
<1>. QED
  BY <1>2 DEF IInv, login

\* A command that is not in the middle of a restart ends, or goes on as c2,
\* without an effect on the services.
LEMMA WithoutEffect ==
  ASSUME IInv, NEW c \in commands, ~Restarting(c),
         UNCHANGED <<host, stage, menu, message, inFlight, queries, login, inputs>>,
         UNCHANGED machine, Report(c),
         \/ commands' = commands \ {c}
         \/ \E d \in Commands : commands' = (commands \ {c}) \cup {d} /\ ~Restarting(d)
  PROVE  IInv'
<1>1. queue' \in Seq(Events) /\ OneComing(inFlight, queries, queue')
  BY Reported
<1>2. commands' \subseteq Commands
  BY DEF IInv, TypeOK
<1>3. \A d \in commands' : Restarting(d) => d.item.control = "restart"
  BY DEF IInv
<1>4. \A d \in commands : Restarting(d) => d \in commands'
  OBVIOUS
<1>5. DownHasACause'
  BY <1>4 DEF IInv, DownHasACause, Down, machine
<1>. QED
  BY <1>1, <1>2, <1>3, <1>5, CommandStepType DEF IInv, TypeOK, Down, machine

\* A command that changes its own service leaves it running, excused, or with a
\* command that will start it.
LEMMA OwnService ==
  ASSUME IInv, NEW c \in commands,
         \A m \in Modes \ {c.item.mode} :
           services'[m] = services[m] /\ (m \in excused' <=> m \in excused),
         commands \ {c} \subseteq commands',
         \/ services'[c.item.mode] = "running" \/ c.item.mode \in excused'
         \/ \E d \in commands' : Restarting(d) /\ d.item.mode = c.item.mode
  PROVE  DownHasACause'
<1> SUFFICES ASSUME NEW m \in Modes, services'[m] # "running", m \notin excused'
             PROVE  \E d \in commands' : Restarting(d) /\ d.item.mode = m
  BY DEF DownHasACause, Down
<1>1. CASE m = c.item.mode
  BY <1>1
<1>2. CASE m # c.item.mode
  <2>1. Down(m) /\ m \notin excused
    BY <1>2 DEF Down
  <2>2. PICK d \in commands : Restarting(d) /\ d.item.mode = m
    BY <2>1 DEF IInv, DownHasACause
  <2>. QED
    BY <1>2, <2>2
<1>. QED
  BY <1>1, <1>2

\* A restart goes on with its next step, with at most its own service changed.
LEMMA RestartProceeds ==
  ASSUME IInv, NEW c \in commands, NEW step \in {"wait", "start"}, Proceeds(c, step),
         UNCHANGED <<host, stage, menu, message, inFlight, queries, login, inputs>>,
         c.item.control = "restart", UNCHANGED excused,
         services' \in [Modes -> States],
         \A m \in Modes : services'[m] # services[m] => m = c.item.mode /\ services'[m] # "running"
  PROVE  IInv'
<1> DEFINE d == [c EXCEPT !.step = step]
<1>1. d \in Commands /\ Restarting(d) /\ d.item = c.item
  BY CommandFields DEF Commands, Restarting
<1>2. commands' = (commands \ {c}) \cup {d} /\ UNCHANGED queue
  BY DEF Proceeds
<1>. HIDE DEF d
<1>3. DownHasACause'
  BY <1>1, <1>2, OwnService
<1>4. commands' \subseteq Commands
      /\ \A e \in commands' : Restarting(e) => e.item.control = "restart"
  BY <1>1, <1>2 DEF IInv, TypeOK
<1>5. queue' \in Seq(Events) /\ OneComing(inFlight, queries, queue')
  BY <1>2, OneComingIsOne DEF IInv, TypeOK
<1>6. excused' \subseteq Modes /\ \A m \in excused' : services'[m] # "running"
  BY DEF IInv, TypeOK, Down
<1>. QED
  BY <1>3, <1>4, <1>5, <1>6, CommandStepType

LEMMA CommandKeeps ==
  ASSUME IInv, NEW c \in commands, CommandStep(c)
  PROVE  IInv'
<1>1. UNCHANGED <<host, stage, menu, message, inFlight, queries, login, inputs>>
  BY DEF CommandStep
<1>2. /\ c \in Commands /\ c.step \in {"open", "run", "wait", "start"} /\ c.item \in Items
      /\ c.item.control \in Controls => c.item.mode \in Modes
      /\ Restarting(c) => c.item.control = "restart"
  BY CommandFields
<1>3. /\ services \in [Modes -> States] /\ excused \subseteq Modes /\ commands \subseteq Commands
      /\ \A m \in excused : services[m] # "running"
  BY DEF IInv, TypeOK, Down
<1>4. CASE OpenTerminal(c)
  <2>1. [c EXCEPT !.owner = "terminal", !.step = "run"] \in Commands
        /\ ~Restarting([c EXCEPT !.owner = "terminal", !.step = "run"])
    BY <1>2 DEF Commands, Restarting
  <2>. QED
    BY <1>1, <1>4, <2>1, WithoutEffect DEF OpenTerminal, Done, Restarting
<1>5. CASE CheckForUpdates(c) \/ CommandFails(c)
  BY <1>1, <1>5, WithoutEffect DEF CheckForUpdates, CommandFails, Done, Restarting
<1>6. ASSUME Done(c), services' \in [Modes -> States], excused' \subseteq Modes,
             \A m \in excused' : services'[m] # "running",
             \A m \in Modes \ {c.item.mode} :
               services'[m] = services[m] /\ (m \in excused' <=> m \in excused),
             services'[c.item.mode] = "running" \/ c.item.mode \in excused'
      PROVE  IInv'
  <2>1. queue' \in Seq(Events) /\ OneComing(inFlight, queries, queue')
    BY <1>6, Reported DEF Done
  <2>2. commands' = commands \ {c}
    BY <1>6 DEF Done
  <2>3. DownHasACause'
    BY <1>6, <2>2, OwnService
  <2>4. \A d \in commands' : Restarting(d) => d.item.control = "restart"
    BY <2>2 DEF IInv
  <2>. QED
    BY <1>1, <1>3, <1>6, <2>1, <2>2, <2>3, <2>4, CommandStepType
<1>7. ASSUME NEW status \in States, Becomes(c.item.mode, status), c.item.control \in Controls, Done(c)
      PROVE  IInv'
  <2>1. services' = [services EXCEPT ![c.item.mode] = status] /\ c.item.mode \in Modes
    BY <1>2, <1>7 DEF Becomes
  <2>2. /\ services' \in [Modes -> States] /\ services'[c.item.mode] = status
        /\ \A m \in Modes \ {c.item.mode} : services'[m] = services[m]
    BY <1>3, <2>1
  <2>3. excused' = IF status = "running" THEN excused \ {c.item.mode} ELSE excused \cup {c.item.mode}
    BY <1>7 DEF Becomes
  <2>. QED
    BY <1>3, <1>6, <1>7, <2>1, <2>2, <2>3
<1>8. {"running", "stopped", "stopping"} \subseteq States
  BY DEF States, Statuses
<1>9. CASE StartService(c)
  <2>1. c.item.control \in Controls
    BY <1>2, <1>9 DEF StartService, Controls, Restarting
  <2>. QED
    BY <1>7, <1>8, <1>9, <2>1 DEF StartService
<1>10. CASE StopService(c) \/ RestartService(c)
  <2>1. c.item.control \in Controls /\ Done(c)
    BY <1>10 DEF StopService, RestartService, Controls
  <2>2. \E status \in {"running", "stopped", "stopping"} : Becomes(c.item.mode, status)
    BY <1>10 DEF StopService, RestartService
  <2>. QED
    BY <1>7, <1>8, <2>1, <2>2
<1>11. CASE StartAgainFails(c) \/ RestartGivesUp(c)
  <2>1. /\ Restarting(c) /\ UNCHANGED services /\ Done(c)
        /\ excused' = excused \cup {m \in {c.item.mode} : services[m] # "running"}
    BY <1>11 DEF StartAgainFails, RestartGivesUp, Restarting, Excuse, Down
  <2>2. c.item.mode \in Modes
    BY <1>2, <2>1 DEF Controls
  <2>. QED
    BY <1>3, <1>6, <2>1, <2>2
<1>12. CASE RestartStops(c)
  <2>1. c.item.control = "restart" /\ UNCHANGED excused
        /\ \E step \in {"wait", "start"} : Proceeds(c, step)
    BY <1>12 DEF RestartStops
  <2>2. c.item.mode \in Modes
    BY <1>2, <2>1 DEF Controls
  <2>3. \E state \in {services[c.item.mode], "stopping", "stopped"} :
          services' = [services EXCEPT ![c.item.mode] = state]
    <3>1. services = [services EXCEPT ![c.item.mode] = services[c.item.mode]]
      BY <1>3
    <3>2. CASE platform = "windows"
      BY <1>12, <3>2 DEF RestartStops
    <3>3. CASE platform # "windows"
      BY <1>12, <3>1, <3>3 DEF RestartStops
    <3>. QED
      BY <3>2, <3>3
  <2>4. services' \in [Modes -> States]
        /\ \A m \in Modes : services'[m] # services[m] => m = c.item.mode /\ services'[m] # "running"
    BY <1>3, <1>8, <2>2, <2>3
  <2>. QED
    BY <1>1, <2>1, <2>4, RestartProceeds
<1>13. CASE RestartGoesOn(c)
  <2>1. Restarting(c) /\ Proceeds(c, "start") /\ UNCHANGED <<services, excused>>
    BY <1>13 DEF RestartGoesOn, Restarting, machine
  <2>. QED
    BY <1>1, <1>2, <1>3, <2>1, RestartProceeds
<1>. QED
  BY <1>4, <1>5, <1>9, <1>10, <1>11, <1>12, <1>13 DEF CommandStep

\* What another program stops is excused, and a service that was asked to stop
\* was down before it has stopped.
LEMMA OthersKeep ==
  ASSUME IInv, NEW mode \in Modes, ServiceChanges(mode) \/ ServiceStopped(mode)
  PROVE  IInv'
<1>1. inputs' \in 0 .. MaxInputs /\ UNCHANGED <<host, stage, app, commands, login>>
  BY TrayAssumption DEF ServiceChanges, ServiceStopped, IInv, TypeOK
<1>2. /\ services \in [Modes -> States] /\ excused \subseteq Modes
      /\ \A m \in excused : services[m] # "running"
  BY DEF IInv, TypeOK, Down
<1>3. PICK s \in Statuses :
        /\ services' = [services EXCEPT ![mode] = s]
        /\ \/ excused' = IF s = "running" THEN excused \ {mode} ELSE excused \cup {mode}
           \/ s = "stopped" /\ services[mode] = "stopping" /\ excused' = excused
  BY DEF ServiceChanges, ServiceStopped, Becomes, Statuses
<1>4. services' \in [Modes -> States] /\ excused' \subseteq Modes
      /\ \A m \in excused' : services'[m] # "running"
  BY <1>2, <1>3 DEF States
<1>5. DownHasACause'
  <2> SUFFICES ASSUME NEW m \in Modes, services'[m] # "running", m \notin excused'
               PROVE  services[m] # "running" /\ m \notin excused
    BY <1>1 DEF DownHasACause, Down, IInv
  <2>. QED
    BY <1>2, <1>3
<1>6. OneAnswerComing'
  BY <1>1 DEF IInv, TypeOK, OneAnswerComing, StatusAt, app
<1>7. TypeOK'
  BY <1>1, <1>4, <1>6 DEF IInv, TypeOK, Down, host, app, login
<1>. QED
  BY <1>1, <1>5, <1>7 DEF IInv, login

-----------------------------------------------------------------------------
(* The login entry                                                         *)

LEMMA LoginStep ==
  ASSUME IInv,
         UNCHANGED <<host, stage, machine, menu, inFlight, queries, commands, inputs>>,
         queue' \in Seq(Events), OneComing(inFlight, queries, queue'),
         message' \in {"ready", "requested", "answered"},
         entry' \in {"none", "torn", "complete"}, temp' \in {"none", "torn", "complete"},
         legacy' \in Files \cup {NoFile}, writing' \in {"no", "write", "publish", "legacy"},
         writing' = "publish" => temp' = "complete",
         writing' = "legacy" => entry' = "complete"
  PROVE  IInv'
<1>1. OneAnswerComing'
  BY DEF OneAnswerComing, OneComing, StatusAt, AnswersIn
<1>2. TypeOK'
  BY <1>1 DEF IInv, TypeOK, Down, host, machine
<1>. QED
  BY <1>2 DEF IInv, DownHasACause, Down, machine

LEMMA LoginKeeps ==
  ASSUME IInv, HandleSetup \/ InstallAutostart
  PROVE  IInv'
<1>1. /\ queue \in Seq(Events) /\ OneComing(inFlight, queries, queue) /\ inFlight \in BOOLEAN
      /\ message \in {"ready", "requested", "answered"}
      /\ entry \in {"none", "torn", "complete"} /\ temp \in {"none", "torn", "complete"}
      /\ legacy \in Files \cup {NoFile} /\ writing \in {"no", "write", "publish", "legacy"}
      /\ writing = "publish" => temp = "complete"
      /\ writing = "legacy" => entry = "complete"
  BY OneComingIsOne DEF IInv, TypeOK
<1>2. CASE HandleSetup
  <2>1. /\ queue # <<>> /\ Head(queue).type = "setup" /\ queue' = Tail(queue) /\ writing = "no"
        /\ UNCHANGED <<host, stage, inputs>>
        /\ UNCHANGED <<machine, menu, inFlight, queries, commands, entry, legacy>>
    BY <1>2 DEF HandleSetup, Handled, Handling
  <2>2. queue' \in Seq(Events) /\ OneComing(inFlight, queries, queue')
    BY <1>1, <2>1, AnswersAfterTail, EventTaken
  <2>3. /\ message' \in {"ready", "requested", "answered"} /\ temp' \in {"none", "torn", "complete"}
        /\ writing' \in {"no", "write", "publish"}
        /\ writing' = "publish" => temp' = "complete"
    BY <1>1, <1>2, <2>1 DEF HandleSetup
  <2>. QED
    BY <1>1, <2>1, <2>2, <2>3, LoginStep
<1>3. CASE InstallAutostart
  <2>1. UNCHANGED <<host, stage, machine, menu, inFlight, queries, queue, commands, inputs>>
    BY <1>3 DEF InstallAutostart
  <2>2. CASE WriteTemp
    BY <1>1, <2>1, <2>2, LoginStep DEF WriteTemp
  <2>3. CASE Publish
    BY <1>1, <2>1, <2>3, LoginStep DEF Publish
  <2>4. CASE RemoveLegacy
    BY <1>1, <2>1, <2>4, LoginStep DEF RemoveLegacy
  <2>. QED
    BY <1>3, <2>2, <2>3, <2>4 DEF InstallAutostart
<1>. QED
  BY <1>2, <1>3

LEMMA NextIInv == IInv /\ [Next]_vars => IInv'
<1> SUFFICES ASSUME IInv, [Next]_vars
             PROVE  IInv'
  OBVIOUS
<1>1. CASE UNCHANGED vars
  <2>1. /\ UNCHANGED <<host, stage, machine, menu, inFlight, queries, commands, inputs>>
        /\ UNCHANGED <<message, queue, entry, temp, legacy, writing>>
    BY <1>1 DEF vars, app, login
  <2>. QED
    BY <2>1, LoginStep, OneComingIsOne DEF IInv, TypeOK
<1>2. CASE Killed \/ HandleQuit
  BY <1>2, ExitKeeps DEF Killed, HandleQuit
<1>3. CASE Launch \/ Tick \/ CreateTrayIcon \/ HandleRefresh \/ ApplyStatus \/ SetMessage
  BY <1>3, LoopKeeps
<1>4. CASE HandleClick \/ QueryStep
  BY <1>4, ClickKeeps, QueryKeeps
<1>5. CASE HandleSetup \/ InstallAutostart
  BY <1>5, LoginKeeps
<1>6. CASE (\E item \in Items : Click(item)) \/ \E type \in {"setup", "quit"} : ClickOther(type)
  BY <1>6, InputKeeps
<1>7. CASE \E c \in commands : CommandStep(c)
  BY <1>7, CommandKeeps
<1>8. CASE \E m \in Modes : ServiceChanges(m) \/ ServiceStopped(m)
  BY <1>8, OthersKeep
<1>. QED
  BY <1>1, <1>2, <1>3, <1>4, <1>5, <1>6, <1>7, <1>8 DEF Next, EventLoop

THEOREM Invariance == Spec => []IInv
<1>. QED
  BY InitIInv, NextIInv, PTL DEF Spec

\* The variables keep their types, and at most one answer about the services is
\* on its way while the flag status_refresh_in_flight is up, none while it is not.
THEOREM TypeCorrect == Spec => []TypeOK
<1>1. IInv => TypeOK
  BY DEF IInv
<1>. QED
  BY <1>1, Invariance, PTL

\* Commands of the menu that run in parallel, in threads or in terminals, do not
\* lose a service: one that is down, or still stopping, was stopped by somebody or
\* failed, or a restart is about to start it, or a restart left it so: its start
\* failed, its tray was quit, or it gave up waiting for a stop Windows had accepted.
THEOREM NoServiceIsLost == Spec => []DownHasACause
<1>1. IInv => DownHasACause
  BY DEF IInv
<1>. QED
  BY <1>1, Invariance, PTL

-----------------------------------------------------------------------------
(* The parser of the old login entry                                       *)

LEMMA NaturalsAreWellFounded ==
  IsWellFoundedOn({p \in Nat \X Nat : p[1] < p[2]}, Nat)
  BY NatLessThanWellFounded, Zenon DEF OpToRel

\* What holds of 0, and of each number up to n if of the one before, holds of n.
LEMMA UpTo ==
  ASSUME NEW n \in Nat, NEW S, 0 \in S, \A i \in 1 .. n : i - 1 \in S => i \in S
  PROVE  \A i \in 0 .. n : i \in S
<1> DEFINE Less == {p \in Nat \X Nat : p[1] < p[2]}
           Out == {i \in 0 .. n : i \notin S}
<1>. SUFFICES ASSUME Out # {} PROVE FALSE
  OBVIOUS
<1>1. Out \subseteq Nat /\ IsWellFoundedOn(Less, Nat)
  BY NaturalsAreWellFounded
<1>2. \E i \in Out : \A j \in Out : ~(<<j, i>> \in Less)
  <2>. HIDE DEF Less, Out
  <2>. QED
    BY <1>1, WFMin
<1>3. PICK i \in Out : \A j \in Out : ~(<<j, i>> \in Less)
  BY <1>2
<1>4. i \in 1 .. n /\ i - 1 \in 0 .. n
  OBVIOUS
<1>5. <<i - 1, i>> \in Less
  BY <1>4
<1>6. i - 1 \notin Out
  BY <1>3, <1>5
<1>. QED
  BY <1>4, <1>6

\* parsed, in the definition of LegacyIsOwned, is defined.
LEMMA LegacyUnfolds ==
  ASSUME NEW file \in Seq(Lines)
  PROVE  \E parsed :
           /\ parsed[0] = NothingRead
           /\ \A n \in 1 .. Len(file) : parsed[n] = ParseLine(parsed[n - 1], file[n])
           /\ LegacyIsOwned(file) =>
                parsed[Len(file)].owned \/ \A k \in Keys : parsed[Len(file)].seen[k]
<1> DEFINE Parse(f, n) == IF n = 0 THEN NothingRead ELSE ParseLine(f[n - 1], file[n])
           Parses(f, n) == f = [i \in 0 .. n |-> Parse(f, i)]
           S == {n \in 0 .. Len(file) : \E f : Parses(f, n)}
<1>1. Len(file) \in Nat
  BY LenProperties
<1>2. 0 \in S
  <2>1. Parses([i \in 0 .. 0 |-> NothingRead], 0)
    OBVIOUS
  <2>. HIDE DEF Parses
  <2>. QED
    BY <1>1, <2>1
<1>3. ASSUME NEW n \in 1 .. Len(file), n - 1 \in S PROVE n \in S
  <2>1. PICK f : Parses(f, n - 1)
    BY <1>3
  <2> DEFINE g == [i \in 0 .. n |-> IF i = n THEN Parse(f, n) ELSE f[i]]
  <2>2. \A i \in 0 .. n : g[i] = Parse(g, i)
    <3>1. n \in Nat /\ n - 1 \in 0 .. n /\ g[n] = Parse(f, n) /\ g[n - 1] = f[n - 1]
      BY <1>1
    <3>2. g[n] = Parse(g, n)
      BY <3>1
    <3>3. ASSUME NEW i \in 0 .. n - 1 PROVE g[i] = Parse(g, i)
      <4>1. f[i] = Parse(f, i)
        BY <2>1, <3>3
      <4>2. g[i] = f[i] /\ (i # 0 => i - 1 \in 0 .. n /\ g[i - 1] = f[i - 1])
        BY <1>1, <3>3
      <4>. QED
        BY <4>1, <4>2
    <3>4. \A i \in 0 .. n : i = n \/ i \in 0 .. n - 1
      BY <1>1
    <3>. HIDE DEF Parse, g
    <3>. QED
      BY <3>2, <3>3, <3>4
  <2>3. Parses(g, n)
    <3>. HIDE DEF Parse
    <3>1. g = [i \in 0 .. n |-> g[i]]
      OBVIOUS
    <3>. QED
      BY <2>2, <3>1
  <2>4. n \in 0 .. Len(file)
    BY <1>1
  <2>. HIDE DEF Parses, g
  <2>. QED
    BY <2>3, <2>4, Zenon
<1>4. Len(file) \in S
  <2>. HIDE DEF S
  <2>1. \A i \in 1 .. Len(file) : i - 1 \in S => i \in S
    BY <1>3
  <2>2. \A i \in 0 .. Len(file) : i \in S
    BY <1>1, <1>2, <2>1, UpTo
  <2>. QED
    BY <1>1, <2>2
<1> DEFINE parsed == CHOOSE f : Parses(f, Len(file))
<1>5. Parses(parsed, Len(file))
  BY <1>4
<1>6. LegacyIsOwned(file) =>
        parsed[Len(file)].owned \/ \A k \in Keys : parsed[Len(file)].seen[k]
  BY DEF LegacyIsOwned
<1>7. \A n \in 0 .. Len(file) : parsed[n] = Parse(parsed, n)
  <2>. HIDE DEF parsed, Parse
  <2>. QED
    BY <1>5
<1>. QED
  <2>. HIDE DEF parsed
  <2>. QED
    BY <1>1, <1>6, <1>7

\* The last value of the key in these lines is the tray's.
LastIsOurs(file, k, first, last) ==
  \E i \in first + 1 .. last :
    /\ file[i].kind = k /\ file[i].ours
    /\ \A j \in i + 1 .. last : file[j].kind # k

\* The open section, which is an entry, begins at first and has the keys seen.
OpenSince(file, s, first, n) ==
  /\ first \in 1 .. n /\ file[first].kind = "section" /\ file[first].ours
  /\ \A i \in first + 1 .. n : file[i].kind # "section"
  /\ \A k \in Keys : s.seen[k] => LastIsOurs(file, k, first, n)

\* The states of the parser.
ParserStates == [owned : BOOLEAN, inEntry : BOOLEAN, seen : [Keys -> BOOLEAN]]

\* What the state of the parser after n lines says of the file.
Knows(file, s, n) ==
  /\ s \in ParserStates
  /\ s.owned => DeclaresTray(file)
  /\ ~s.owned /\ s.inEntry => \E first \in 1 .. n : OpenSince(file, s, first, n)
  /\ ~s.owned /\ ~s.inEntry => \A k \in Keys : ~s.seen[k]

LEMMA CompleteEntry ==
  ASSUME NEW file \in Seq(Lines), NEW s, NEW last \in 1 .. Len(file),
         NEW first \in 1 .. last, OpenSince(file, s, first, last), \A k \in Keys : s.seen[k],
         last = Len(file) \/ file[last + 1].kind = "section"
  PROVE  DeclaresTray(file)
<1>1. Len(file) \in Nat /\ first \in 1 .. Len(file) /\ last >= first
  BY LenProperties
<1>2. /\ file[first].kind = "section" /\ file[first].ours
      /\ \A i \in first + 1 .. last : file[i].kind # "section"
  BY DEF OpenSince
<1>3. \A k \in Keys : LastIsOurs(file, k, first, last)
  BY DEF OpenSince
<1>. QED
  BY <1>1, <1>2, <1>3 DEF DeclaresTray, LastIsOurs

LEMMA LineTypes ==
  ASSUME NEW file \in Seq(Lines), NEW n \in 1 .. Len(file)
  PROVE  /\ Len(file) \in Nat /\ n \in Nat \ {0}
         /\ file[n].kind \in Keys \cup {"section", "other"} /\ file[n].ours \in BOOLEAN
         /\ "section" \notin Keys
<1>1. Len(file) \in Nat
  BY LenProperties
<1>2. file[n] \in Lines
  BY ElementOfSeq
<1>3. "section" \notin Keys
  BY DEF Keys
<1>4. n \in Nat \ {0}
  BY <1>1
<1>. QED
  BY <1>1, <1>2, <1>3, <1>4 DEF Lines

\* A line within an entry leaves it open, with the keys seen that it says.
LEMMA EntryContinues ==
  ASSUME NEW file \in Seq(Lines), NEW n \in 1 .. Len(file), NEW s, Knows(file, s, n - 1),
         ~s.owned, file[n].kind # "section",
         NEW t \in ParserStates, t.owned = s.owned, t.inEntry = s.inEntry,
         \A k \in Keys : t.seen[k] =>
           IF file[n].kind = k THEN s.inEntry /\ file[n].ours ELSE s.seen[k]
  PROVE  Knows(file, t, n)
<1>1. Len(file) \in Nat /\ n \in Nat \ {0}
  BY LineTypes
<1>2. /\ s.inEntry => \E first \in 1 .. n - 1 : OpenSince(file, s, first, n - 1)
      /\ ~s.inEntry => \A k \in Keys : ~s.seen[k]
  BY DEF Knows
<1>3. ASSUME s.inEntry PROVE \E first \in 1 .. n : OpenSince(file, t, first, n)
  <2>1. PICK first \in 1 .. n - 1 : OpenSince(file, s, first, n - 1)
    BY <1>2, <1>3
  <2>2. /\ first \in 1 .. n /\ file[first].kind = "section" /\ file[first].ours
        /\ \A i \in first + 1 .. n : file[i].kind # "section"
    <3>1. first \in 1 .. n /\ \A i \in first + 1 .. n : i = n \/ i \in first + 1 .. n - 1
      BY <1>1
    <3>. QED
      BY <2>1, <3>1 DEF OpenSince
  <2>3. ASSUME NEW k \in Keys, t.seen[k] PROVE LastIsOurs(file, k, first, n)
    <3>1. CASE file[n].kind = k
      BY <1>1, <2>1, <2>3, <3>1 DEF LastIsOurs
    <3>2. CASE file[n].kind # k
      <4>1. s.seen[k]
        BY <2>3, <3>2
      <4>2. LastIsOurs(file, k, first, n - 1)
        BY <2>1, <4>1 DEF OpenSince
      <4>3. PICK i \in first + 1 .. n - 1 :
              /\ file[i].kind = k /\ file[i].ours
              /\ \A j \in i + 1 .. n - 1 : file[j].kind # k
        BY <4>2 DEF LastIsOurs
      <4>4. i \in first + 1 .. n /\ \A j \in i + 1 .. n : j = n \/ j \in i + 1 .. n - 1
        BY <1>1, <2>1
      <4>. QED
        BY <3>2, <4>3, <4>4 DEF LastIsOurs
    <3>. QED
      BY <3>1, <3>2
  <2>. QED
    BY <2>2, <2>3 DEF OpenSince
<1>4. ASSUME ~s.inEntry, NEW k \in Keys PROVE ~t.seen[k]
  BY <1>2, <1>4
<1>. QED
  BY <1>3, <1>4 DEF Knows, ParserStates

LEMMA LineKnown ==
  ASSUME NEW file \in Seq(Lines), NEW n \in 1 .. Len(file), NEW s, Knows(file, s, n - 1)
  PROVE  Knows(file, ParseLine(s, file[n]), n)
<1>1. /\ Len(file) \in Nat /\ n \in Nat \ {0}
      /\ file[n].kind \in Keys \cup {"section", "other"} /\ file[n].ours \in BOOLEAN
      /\ "section" \notin Keys
  BY LineTypes
<1>2. /\ s \in ParserStates
      /\ s.owned => DeclaresTray(file)
      /\ ~s.owned /\ s.inEntry => \E first \in 1 .. n - 1 : OpenSince(file, s, first, n - 1)
      /\ ~s.owned /\ ~s.inEntry => \A k \in Keys : ~s.seen[k]
  BY DEF Knows, ParserStates
<1>3. CASE s.owned
  BY <1>2, <1>3 DEF ParseLine, Knows, ParserStates
<1>4. CASE ~s.owned /\ file[n].kind = "section"
  <2>1. PICK t : t = ParseLine(s, file[n])
    OBVIOUS
  <2>2. t = [owned |-> s.inEntry /\ \A k \in Keys : s.seen[k], inEntry |-> file[n].ours,
             seen |-> NoKeys]
    BY <1>4, <2>1 DEF ParseLine
  <2>3. /\ t \in ParserStates
        /\ t.owned <=> s.inEntry /\ \A k \in Keys : s.seen[k]
        /\ t.inEntry = file[n].ours /\ \A k \in Keys : ~t.seen[k]
    BY <1>1, <1>2, <2>2 DEF NoKeys, ParserStates
  <2>4. ASSUME t.owned PROVE DeclaresTray(file)
    <3>1. PICK first \in 1 .. n - 1 : OpenSince(file, s, first, n - 1)
      BY <1>2, <1>4, <2>3, <2>4
    <3>2. n - 1 \in 1 .. Len(file) /\ first \in 1 .. n - 1 /\ (n - 1) + 1 = n
      BY <1>1
    <3>3. file[(n - 1) + 1].kind = "section"
      BY <1>4, <3>2
    <3>. QED
      BY <2>3, <2>4, <3>1, <3>2, <3>3, CompleteEntry
  <2>5. ASSUME t.inEntry PROVE \E first \in 1 .. n : OpenSince(file, t, first, n)
    <3>1. n \in 1 .. n /\ n + 1 .. n = {}
      BY <1>1
    <3>2. OpenSince(file, t, n, n)
      BY <1>4, <2>3, <2>5, <3>1 DEF OpenSince
    <3>. QED
      BY <3>1, <3>2
  <2>6. Knows(file, t, n)
    BY <2>3, <2>4, <2>5 DEF Knows, ParserStates
  <2>. QED
    BY <2>1, <2>6
<1>5. CASE ~s.owned /\ s.inEntry /\ file[n].kind \in Keys
  <2>1. PICK t : t = ParseLine(s, file[n])
    OBVIOUS
  <2>2. t = [s EXCEPT !.seen[file[n].kind] = file[n].ours]
    BY <1>1, <1>5, <2>1 DEF ParseLine
  <2>3. /\ t \in ParserStates
        /\ t.owned = s.owned /\ t.inEntry = s.inEntry
        /\ \A k \in Keys : t.seen[k] = IF file[n].kind = k THEN file[n].ours ELSE s.seen[k]
    BY <1>1, <1>2, <2>2 DEF ParserStates
  <2>4. \A k \in Keys : t.seen[k] =>
          IF file[n].kind = k THEN s.inEntry /\ file[n].ours ELSE s.seen[k]
    BY <1>5, <2>3
  <2>5. file[n].kind # "section"
    BY <1>1, <1>5
  <2>6. Knows(file, t, n)
    BY <1>5, <2>3, <2>4, <2>5, EntryContinues
  <2>. QED
    BY <2>1, <2>6
<1>6. CASE ~s.owned /\ file[n].kind # "section" /\ ~(s.inEntry /\ file[n].kind \in Keys)
  <2>1. ParseLine(s, file[n]) = s
    BY <1>6 DEF ParseLine
  <2>2. \A k \in Keys : s.seen[k] =>
          IF file[n].kind = k THEN s.inEntry /\ file[n].ours ELSE s.seen[k]
    BY <1>2, <1>6
  <2>3. Knows(file, s, n)
    BY <1>2, <1>6, <2>2, EntryContinues
  <2>. QED
    BY <2>1, <2>3
<1>. QED
  BY <1>3, <1>4, <1>5, <1>6

\* linux_legacy_autostart_is_owned takes no file for the tray's that is not.
LEMMA OwnedDeclaresTray ==
  ASSUME NEW file \in Seq(Lines), LegacyIsOwned(file)
  PROVE  DeclaresTray(file)
<1>1. PICK parsed :
        /\ parsed[0] = NothingRead
        /\ \A n \in 1 .. Len(file) : parsed[n] = ParseLine(parsed[n - 1], file[n])
        /\ parsed[Len(file)].owned \/ \A k \in Keys : parsed[Len(file)].seen[k]
  BY LegacyUnfolds
<1>2. Len(file) \in Nat
  BY LenProperties
<1> DEFINE S == {n \in 0 .. Len(file) : Knows(file, parsed[n], n)}
<1>3. 0 \in S
  <2>1. Knows(file, NothingRead, 0)
    BY DEF Knows, NothingRead, NoKeys, ParserStates
  <2>. QED
    BY <1>1, <1>2, <2>1
<1>4. ASSUME NEW n \in 1 .. Len(file), n - 1 \in S PROVE n \in S
  <2>1. Knows(file, parsed[n - 1], n - 1)
    BY <1>4
  <2>2. n \in 0 .. Len(file) /\ Knows(file, parsed[n], n)
    BY <1>1, <1>2, <2>1, LineKnown
  <2>. QED
    BY <2>2, Zenon
<1>5. Knows(file, parsed[Len(file)], Len(file))
  <2>. HIDE DEF S
  <2>1. \A i \in 1 .. Len(file) : i - 1 \in S => i \in S
    BY <1>4
  <2>2. \A i \in 0 .. Len(file) : i \in S
    BY <1>2, <1>3, <2>1, UpTo
  <2>3. Len(file) \in S
    BY <1>2, <2>2
  <2>. QED
    BY <2>3 DEF S
<1> DEFINE end == parsed[Len(file)]
<1>6. CASE end.owned
  BY <1>5, <1>6 DEF Knows
<1>7. CASE ~end.owned
  <2>1. \A k \in Keys : end.seen[k]
    BY <1>1, <1>7
  <2>2. end.inEntry
    BY <1>5, <1>7, <2>1 DEF Knows, Keys
  <2>3. PICK first \in 1 .. Len(file) : OpenSince(file, end, first, Len(file))
    BY <1>5, <1>7, <2>2 DEF Knows
  <2>4. Len(file) \in 1 .. Len(file)
    BY <1>2
  <2>. HIDE DEF end
  <2>. QED
    BY <2>1, <2>3, <2>4, CompleteEntry
<1>. QED
  BY <1>6, <1>7

\* Once the tray starts at login it always does, whatever step of
\* install_tray_autostart fails and wherever the tray is killed in it, and the
\* old entry goes only if it is the tray's own, whatever its lines are.
THEOREM StartupIsKept == Spec => LoginEntryKept
<1> DEFINE Kept == /\ StartsAtLogin => StartsAtLogin'
                   /\ legacy' # legacy => DeclaresTray(legacy)
<1>1. IInv /\ [Next]_vars => [Kept]_vars
  <2> SUFFICES ASSUME IInv, Next
               PROVE  Kept
    OBVIOUS
  <2>1. CASE UNCHANGED <<entry, legacy>>
    BY <2>1 DEF StartsAtLogin
  <2>2. CASE WriteTemp
    BY <2>1, <2>2 DEF WriteTemp
  <2>3. CASE Publish
    BY <2>3 DEF Publish, IInv, StartsAtLogin
  <2>4. CASE RemoveLegacy
    <3>1. entry = "complete" /\ entry' = entry
      BY <2>4 DEF RemoveLegacy, IInv
    <3>2. ASSUME legacy' # legacy PROVE DeclaresTray(legacy)
      <4>1. legacy # NoFile /\ LegacyIsOwned(legacy)
        BY <2>4, <3>2 DEF RemoveLegacy
      <4>2. legacy \in Seq(Lines)
        BY <4>1, TrayAssumption DEF IInv, TypeOK
      <4>. QED
        BY <4>1, <4>2, OwnedDeclaresTray
    <3>. QED
      BY <3>1, <3>2 DEF StartsAtLogin
  <2>5. CASE HandleClick \/ HandleRefresh \/ ApplyStatus \/ SetMessage \/ HandleSetup
    <3>1. UNCHANGED <<entry, legacy>>
      BY <2>5 DEF HandleClick, HandleRefresh, ApplyStatus, SetMessage, HandleSetup, login
    <3>. QED
      BY <2>1, <3>1
  <2>6. CASE Launch \/ Killed \/ HandleQuit \/ CreateTrayIcon \/ Tick \/ QueryStep
    <3>1. UNCHANGED <<entry, legacy>>
      BY <2>6 DEF Launch, Killed, HandleQuit, Exit, CreateTrayIcon, Tick, QueryStep, login
    <3>. QED
      BY <2>1, <3>1
  <2>7. CASE \/ \E item \in Items : Click(item)
             \/ \E type \in {"setup", "quit"} : ClickOther(type)
             \/ \E c \in commands : CommandStep(c)
             \/ \E m \in Modes : ServiceChanges(m) \/ ServiceStopped(m)
    <3>1. UNCHANGED <<entry, legacy>>
      BY <2>7 DEF Click, ClickOther, Send, CommandStep, ServiceChanges,
                  ServiceStopped, login
    <3>. QED
      BY <2>1, <3>1
  <2>. QED
    BY <2>2, <2>3, <2>4, <2>5, <2>6, <2>7 DEF Next, EventLoop, InstallAutostart
<1>. QED
  BY <1>1, Invariance, PTL DEF Spec, LoginEntryKept

=============================================================================
