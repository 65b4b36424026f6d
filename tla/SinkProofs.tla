----------------------------- MODULE SinkProofs ------------------------------
(***************************************************************************)
(* Proofs about Sink, for any threads, sinks, settings, messages and calls *)
(* and in both modes: no thread waits inside a sink, template and patterns *)
(* fit, and Sink implements SinkPromise, for which it does not matter what *)
(* Replaced() and Substitute() do to a string.  That what they make are    *)
(* texts, and the right ones, is from LogLineProofs.                       *)
(***************************************************************************)
EXTENDS Sink, LogLineProofs

\* Logger's mutex of a sink is owned by exactly the thread inside.
OneInside == \A t \in Threads, s \in Sinks :
  logger_mutex[s] = t <=> Inside(t) /\ Here(t) = s

\* The places at which a thread has locked a mutex of the sink.
HeldAt == [msg_template |-> {"fill_conv_patterns"},
           datetime_pattern |-> {"prep_strftime"},
           conv_pattern |-> {"prep_localtime", "prep_strftime", "prep_substitute"}]
InnerOwned == \A t \in Threads, s \in Sinks, k \in Mutexes :
  mtx[s][k] = t => pc[t] \in HeldAt[k] /\ Here(t) = s

\* Whenever no set_msg_template() is halfway through, the vector of a sink names
\* exactly the specifiers of its template.
VectorsFit ==
  \A s \in Sinks :
    (\A t \in Threads : pc[t] = "fill_conv_patterns" => Here(t) # s) =>
      sink[s].vec_conv_patterns = ConvPatterns(sink[s].msg_template)

\* A thread is at a place of its own method, and delivers if its mode lets it.
CallsFit == \A t \in Threads :
  /\ pc[t] \in PrepPC => call[t].op = "prepare_log_message"
  /\ pc[t] \in Ops => call[t].op = pc[t]
  /\ pc[t] # "idle" /\ call[t].op = "prepare_log_message" => (t = Worker) = async

\* The times that a line may show, and the texts that %d may become.
TimesFor(m) == IF async THEN {m.time} ELSE Times
Datetimes(s, m) ==
  UNION {FormatTime(time, sink[s].datetime_pattern, Garbage) : time \in TimesFor(m)}

\* The string of prepare_log_message() when %d has been replaced.
WithTime(s, datetime) ==
  IF "d" \in ConvPatterns(sink[s].msg_template)
  THEN Replaced(sink[s].msg_template, "d", datetime) ELSE sink[s].msg_template

Timed(t) ==
  \E datetime \in Datetimes(call[t].sink, call[t].message) :
    msg[t] = WithTime(call[t].sink, datetime)

\* What t has made of its message so far fits the settings of its sink.
Fits(t) ==
  LET s == call[t].sink  m == call[t].message IN
  /\ pc[t] \in PrepPC \ {"prepare_log_message"} => sink[s].enabled
  /\ pc[t] \in PrepPC \ {"prepare_log_message", "prep_min_lvl"} =>
       SevereEnough(sink[s].min_lvl, m)
  /\ pc[t] = "prep_stack" => m.lvl = EAL_STACK
  /\ pc[t] \in {"prep_template", "prep_patterns", "prep_localtime", "prep_strftime",
                "prep_substitute"} => m.lvl # EAL_STACK
  /\ pc[t] \in {"prep_patterns", "prep_localtime", "prep_strftime"} =>
       msg[t] = sink[s].msg_template
  /\ pc[t] \in {"prep_localtime", "prep_strftime"} =>
       "d" \in ConvPatterns(sink[s].msg_template)
  /\ pc[t] = "prep_strftime" /\ async => timeinfo = m.time
  /\ pc[t] = "prep_substitute" => Timed(t)
  /\ pc[t] = "prep_write" => msg[t] \in Lines(Settings(s), m, TimesFor(m))
AllFit == \A t \in Threads : Fits(t)

\* What every step preserves.
IInv == Shape /\ OneInside /\ InnerOwned /\ CallsFit /\ VectorsFit /\ AllFit

-----------------------------------------------------------------------------
\* The patterns of a template are specifiers.
LEMMA PatternsAreSpecifiers ==
  ASSUME NEW template PROVE ConvPatterns(template) \in SUBSET Range(Specifiers)
  BY DEF ConvPatterns

\* A thread in a call has its sink, its settings and its message.
LEMMA CallInside ==
  ASSUME Shape, NEW t \in Threads, pc[t] # "idle"
  PROVE  /\ call[t] \in Calls /\ call[t] \in Call /\ Here(t) \in Sinks
         /\ call[t].config \in Config /\ call[t].message \in Message
         /\ call[t].message \in {c.message : c \in Calls}
<1>1. call[t] \in Calls BY DEF Shape
<1>2. call[t] \in Call BY <1>1, SinkAssumption
<1> QED BY <1>1, <1>2 DEF Call, Here

\* Two threads are never inside the same sink.
LEMMA Elsewhere ==
  ASSUME IInv, NEW t \in Threads, NEW u \in Threads, t # u, Inside(t), Inside(u)
  PROVE  Here(u) # Here(t)
<1>1. Here(t) \in Sinks BY CallInside DEF IInv, Inside
<1> QED BY <1>1 DEF IInv, OneInside

\* A step of t inside its sink leaves what the other threads have done as it is.
LEMMA OthersFit ==
  ASSUME IInv, NEW t \in Threads, Inside(t), async' = async,
         \A s \in Sinks \ {Here(t)} : sink'[s] = sink[s],
         NEW u \in Threads, u # t,
         pc'[u] = pc[u], call'[u] = call[u], msg'[u] = msg[u],
         timeinfo' = timeinfo \/ call[t].op = "prepare_log_message"
  PROVE  Fits(u)'
<1>1. CASE ~ Inside(u)
  BY <1>1 DEF Inside, Fits, PrepPC
<1>2. CASE Inside(u)
  <2>1. Here(u) \in Sinks /\ Here(u) # Here(t)
    BY <1>2, CallInside, Elsewhere DEF IInv, Inside
  <2>2. sink'[call[u].sink] = sink[call[u].sink] BY <2>1 DEF Here
  <2>3. Settings(call[u].sink)' = Settings(call[u].sink) BY <2>2 DEF Settings
  <2>4. TimesFor(call[u].message)' = TimesFor(call[u].message)
    BY DEF TimesFor
  <2>5. Fits(u) BY DEF IInv, AllFit
  <2>6. pc[u] = "prep_strftime" /\ async => timeinfo' = timeinfo
    <3>1. pc[u] = "prep_strftime" => call[u].op = "prepare_log_message"
      BY DEF IInv, CallsFit, PrepPC
    <3>2. pc[u] = "prep_strftime" /\ async => u = Worker
      BY <3>1 DEF IInv, CallsFit
    <3>3. async /\ call[t].op = "prepare_log_message" => t = Worker
      BY DEF IInv, CallsFit, Inside
    <3> QED BY <3>2, <3>3
  <2> QED BY <2>2, <2>3, <2>4, <2>5, <2>6 DEF Fits, Timed, Datetimes, WithTime
<1> QED BY <1>1, <1>2

\* A step of t that stays inside its sink preserves the invariant if it does so
\* for what t itself has locked and made.
LEMMA GotoIInv ==
  ASSUME IInv, NEW t \in Threads, Inside(t),
         NEW place \in {"fill_conv_patterns"} \cup PrepPC, place \notin Ops,
         Goto(t, place), async' = async,
         place \in PrepPC => call[t].op = "prepare_log_message",
         sink' \in [Sinks -> Object],
         \A s \in Sinks \ {Here(t)} : sink'[s] = sink[s],
         timeinfo' \in Times,
         timeinfo' = timeinfo \/ call[t].op = "prepare_log_message",
         mtx' \in [Sinks -> [Mutexes -> Threads \cup {NoThread}]],
         \A u \in Threads \ {t}, s \in Sinks, k \in Mutexes :
           mtx'[s][k] = u => mtx[s][k] = u,
         \A s \in Sinks, k \in Mutexes :
           mtx'[s][k] = t => place \in HeldAt[k] /\ Here(t) = s,
         DOMAIN msg' = Threads,
         \A u \in Threads \ {t} : msg'[u] = msg[u],
         place \notin PrepPC => msg'[t] = << >>,
         VectorsFit', Fits(t)'
  PROVE  IInv'
<1>1. /\ pc' \in [Threads -> {"idle", "lock", "fill_conv_patterns"} \cup Ops \cup PrepPC]
      /\ pc'[t] = place /\ \A u \in Threads \ {t} : pc'[u] = pc[u]
      /\ call' = call /\ logger_mutex' = logger_mutex
  BY DEF IInv, Shape, Goto
<1>2. place # "idle" /\ place # "lock" BY DEF PrepPC
<1>3. Shape'
  <2>1. async' \in BOOLEAN /\ logger_mutex' \in [Sinks -> Threads \cup {NoThread}]
    BY <1>1 DEF IInv, Shape
  <2>2. \A u \in Threads : /\ pc'[u] = "idle" <=> call'[u] = NoCall
                           /\ pc'[u] \notin PrepPC => msg'[u] = << >>
    BY <1>1, <1>2 DEF IInv, Shape, Inside
  <2>3. call' \in [Threads -> Calls \cup {NoCall}] BY <1>1 DEF IInv, Shape
  <2> QED BY <1>1, <2>1, <2>2, <2>3 DEF Shape
<1>4. OneInside'
  <2>1. \A u \in Threads : (Inside(u) <=> Inside(u)') /\ Here(u)' = Here(u)
    BY <1>1, <1>2 DEF Inside, Here
  <2> QED BY <1>1, <2>1 DEF IInv, OneInside
<1>5. InnerOwned'
  <2>1. \A u \in Threads : Here(u)' = Here(u) BY <1>1 DEF Here
  <2> QED BY <1>1, <2>1 DEF IInv, InnerOwned
<1>6. CallsFit' BY <1>1, <1>2 DEF IInv, CallsFit, Inside
<1>7. AllFit'
  <2>1. \A u \in Threads \ {t} : pc'[u] = pc[u] /\ call'[u] = call[u] /\ msg'[u] = msg[u]
    BY <1>1
  <2>2. \A u \in Threads \ {t} : Fits(u)' BY <2>1, OthersFit
  <2> QED BY <2>2 DEF AllFit
<1> QED BY <1>3, <1>4, <1>5, <1>6, <1>7 DEF IInv

\* So does a step with which t returns from its call.
LEMMA ReturnIInv ==
  ASSUME IInv, NEW t \in Threads, Inside(t), Return(t),
         async' = async, timeinfo' = timeinfo,
         sink' \in [Sinks -> Object],
         \A s \in Sinks \ {Here(t)} : sink'[s] = sink[s],
         mtx' \in [Sinks -> [Mutexes -> Threads \cup {NoThread}]],
         \A u \in Threads \ {t}, s \in Sinks, k \in Mutexes :
           mtx'[s][k] = u => mtx[s][k] = u,
         \A s \in Sinks, k \in Mutexes : mtx'[s][k] # t,
         VectorsFit'
  PROVE  IInv'
<1>1. Here(t) \in Sinks BY CallInside DEF IInv, Inside
<1>2. /\ pc' \in [Threads -> {"idle", "lock", "fill_conv_patterns"} \cup Ops \cup PrepPC]
      /\ call' \in [Threads -> Calls \cup {NoCall}]
      /\ pc'[t] = "idle" /\ call'[t] = NoCall /\ msg'[t] = << >> /\ DOMAIN msg' = Threads
      /\ \A u \in Threads \ {t} : pc'[u] = pc[u] /\ call'[u] = call[u] /\ msg'[u] = msg[u]
  BY DEF IInv, Shape, Return
<1>3. /\ logger_mutex' \in [Sinks -> Threads \cup {NoThread}]
      /\ logger_mutex'[Here(t)] = NoThread
      /\ \A s \in Sinks \ {Here(t)} : logger_mutex'[s] = logger_mutex[s]
  BY <1>1 DEF IInv, Shape, Return
<1>4. Shape'
  <2>1. async' \in BOOLEAN /\ timeinfo' \in Times BY DEF IInv, Shape
  <2>2. \A u \in Threads : /\ pc'[u] = "idle" <=> call'[u] = NoCall
                           /\ pc'[u] \notin PrepPC => msg'[u] = << >>
    BY <1>2 DEF IInv, Shape
  <2> QED BY <1>2, <1>3, <2>1, <2>2 DEF Shape
<1>5. OneInside'
  <2>1. ~ Inside(t)' BY <1>2 DEF Inside
  <2>2. \A u \in Threads \ {t} : (Inside(u) <=> Inside(u)') /\ Here(u)' = Here(u)
    BY <1>2 DEF Inside, Here
  <2>3. \A s \in Sinks \ {Here(t)} : logger_mutex'[s] # t BY <1>3 DEF IInv, OneInside
  <2>4. \A u \in Threads \ {t} : Inside(u) => Here(u) # Here(t) BY Elsewhere
  <2>5. NoThread \notin Threads BY SinkAssumption
  <2>6. ASSUME NEW u \in Threads, NEW s \in Sinks
        PROVE  logger_mutex'[s] = u <=> Inside(u)' /\ Here(u)' = s
    <3>1. CASE u = t BY <1>3, <2>1, <2>3, <2>5, <3>1
    <3>2. CASE u # t /\ s = Here(t) BY <1>3, <2>2, <2>4, <2>5, <3>2
    <3>3. CASE u # t /\ s # Here(t) BY <1>3, <2>2, <3>3 DEF IInv, OneInside
    <3> QED BY <3>1, <3>2, <3>3
  <2> QED BY <2>6 DEF OneInside
<1>6. InnerOwned'
  <2>1. \A u \in Threads \ {t} : Here(u)' = Here(u) BY <1>2 DEF Here
  <2> QED BY <1>2, <2>1 DEF IInv, InnerOwned
<1>7. CallsFit' BY <1>2 DEF IInv, CallsFit, PrepPC, Ops
<1>8. AllFit'
  <2>1. \A u \in Threads \ {t} : Fits(u)' BY <1>2, OthersFit
  <2>2. Fits(t)' BY <1>2 DEF Fits, PrepPC
  <2> QED BY <2>1, <2>2 DEF AllFit
<1> QED BY <1>4, <1>5, <1>6, <1>7, <1>8 DEF IInv

-----------------------------------------------------------------------------
\* Each step preserves the invariant.

LEMMA InitIInv == Init => IInv
<1> SUFFICES ASSUME Init PROVE IInv OBVIOUS
<1>1. NoThread \notin Threads /\ Modes \subseteq BOOLEAN /\ Configs \subseteq Config
  BY SinkAssumption
<1>2. \A config \in Configs : New(config) \in Object
  <2> SUFFICES ASSUME NEW config \in Configs PROVE New(config) \in Object OBVIOUS
  <2>1. config \in Config BY <1>1
  <2> QED BY <2>1, PatternsAreSpecifiers DEF New, Object, Config
<1>3. sink \in [Sinks -> Object] BY <1>2 DEF Init
<1>4. \A t \in Threads : pc[t] = "idle" /\ call[t] = NoCall /\ msg[t] = << >>
  BY DEF Init
<1>5. Unlocked \in [Mutexes -> Threads \cup {NoThread}] BY DEF Unlocked
<1>6. Shape
  <2>1. mtx \in [Sinks -> [Mutexes -> Threads \cup {NoThread}]] BY <1>5 DEF Init
  <2>2. /\ pc \in [Threads -> {"idle", "lock", "fill_conv_patterns"} \cup Ops \cup PrepPC]
        /\ call \in [Threads -> Calls \cup {NoCall}]
        /\ DOMAIN msg = Threads
    BY DEF Init
  <2>3. async \in BOOLEAN /\ timeinfo \in Times BY <1>1 DEF Init
  <2>4. logger_mutex \in [Sinks -> Threads \cup {NoThread}] BY DEF Init
  <2> QED BY <1>3, <1>4, <2>1, <2>2, <2>3, <2>4 DEF Shape
<1>7. OneInside BY <1>1, <1>4 DEF Init, OneInside, Inside
<1>8. InnerOwned BY <1>1 DEF Init, InnerOwned, Unlocked
<1>9. CallsFit BY <1>4 DEF CallsFit, PrepPC, Ops
<1>10. VectorsFit
  <2>1. \A s \in Sinks : \E config \in Configs : sink[s] = New(config)
    BY DEF Init
  <2>2. \A config \in Configs :
          New(config).vec_conv_patterns = ConvPatterns(New(config).msg_template)
    BY DEF New
  <2>3. \A s \in Sinks : sink[s].vec_conv_patterns = ConvPatterns(sink[s].msg_template)
    BY <2>1, <2>2
  <2> QED BY <2>3 DEF VectorsFit
<1>11. AllFit BY <1>4 DEF AllFit, Fits, PrepPC
<1> QED BY <1>6, <1>7, <1>8, <1>9, <1>10, <1>11 DEF IInv

LEMMA EnterIInv ==
  ASSUME IInv, NEW t \in Threads, NEW c \in Calls, Enter(t, c)
  PROVE  IInv'
<1>1. c \in Call /\ c.op \in Ops /\ c # NoCall
  BY SinkAssumption DEF Call, Ops, NoCall
<1>2. /\ pc[t] = "idle" /\ pc'[t] = "lock" /\ call'[t] = c
      /\ \A u \in Threads \ {t} : pc'[u] = pc[u] /\ call'[u] = call[u]
      /\ pc' \in [Threads -> {"idle", "lock", "fill_conv_patterns"} \cup Ops \cup PrepPC]
      /\ call' \in [Threads -> Calls \cup {NoCall}]
      /\ async' = async /\ sink' = sink /\ logger_mutex' = logger_mutex /\ mtx' = mtx
      /\ timeinfo' = timeinfo /\ msg' = msg
  BY DEF Enter, IInv, Shape
<1>3. Shape'
  <2>1. \A u \in Threads : /\ pc'[u] = "idle" <=> call'[u] = NoCall
                           /\ pc'[u] \notin PrepPC => msg'[u] = << >>
    BY <1>1, <1>2 DEF IInv, Shape, PrepPC
  <2> QED BY <1>2, <2>1 DEF IInv, Shape
<1>4. OneInside'
  <2>1. \A u \in Threads \ {t} : (Inside(u) <=> Inside(u)') /\ Here(u)' = Here(u)
    BY <1>2 DEF Inside, Here
  <2>2. ~ Inside(t) /\ ~ Inside(t)' BY <1>2 DEF Inside
  <2> QED BY <1>2, <2>1, <2>2 DEF IInv, OneInside
<1>5. InnerOwned'
  <2>1. \A u \in Threads \ {t} : Here(u)' = Here(u) BY <1>2 DEF Here
  <2>2. \A k \in Mutexes : pc[t] \notin HeldAt[k] BY <1>2 DEF Mutexes, HeldAt
  <2> QED BY <1>2, <2>1, <2>2 DEF IInv, InnerOwned
<1>6. CallsFit'
  <2>1. c.op = "prepare_log_message" => (t = Worker) = async BY DEF Enter
  <2>2. pc'[t] \notin PrepPC /\ pc'[t] \notin Ops BY <1>2 DEF PrepPC, Ops
  <2> QED BY <1>2, <2>1, <2>2 DEF IInv, CallsFit
<1>7. VectorsFit'
  <2>1. \A u \in Threads : pc[u] = "fill_conv_patterns" =>
          pc'[u] = "fill_conv_patterns" /\ Here(u)' = Here(u)
    BY <1>2 DEF Here
  <2> QED BY <1>2, <2>1 DEF IInv, VectorsFit
<1>8. AllFit'
  <2>1. Fits(t)' BY <1>2 DEF Fits, PrepPC
  <2>2. ASSUME NEW u \in Threads \ {t} PROVE Fits(u)'
    <3>1. Fits(u) BY DEF IInv, AllFit
    <3>2. Settings(call[u].sink)' = Settings(call[u].sink) BY <1>2, <2>2 DEF Settings
    <3> QED BY <1>2, <2>2, <3>1, <3>2 DEF Fits, Timed, Datetimes, WithTime, TimesFor
  <2> QED BY <2>1, <2>2 DEF AllFit
<1> QED BY <1>3, <1>4, <1>5, <1>6, <1>7, <1>8 DEF IInv

LEMMA LockSinkIInv ==
  ASSUME IInv, NEW t \in Threads, LockSink(t)
  PROVE  IInv'
<1>1. pc[t] = "lock" /\ call[t] \in Call /\ call[t].op \in Ops /\ Here(t) \in Sinks
  BY CallInside DEF LockSink, IInv, Call
<1>2. /\ pc'[t] = call[t].op
      /\ \A u \in Threads \ {t} : pc'[u] = pc[u]
      /\ pc' \in [Threads -> {"idle", "lock", "fill_conv_patterns"} \cup Ops \cup PrepPC]
      /\ async' = async /\ sink' = sink /\ mtx' = mtx /\ timeinfo' = timeinfo
      /\ msg' = msg /\ call' = call
      /\ logger_mutex[Here(t)] = NoThread
      /\ logger_mutex' = [logger_mutex EXCEPT ![Here(t)] = t]
  BY <1>1 DEF LockSink, IInv, Shape
<1>3. pc'[t] \notin {"idle", "lock", "fill_conv_patterns"} BY <1>1, <1>2 DEF Ops
<1>4. Shape'
  <2>1. \A u \in Threads : /\ pc'[u] = "idle" <=> call'[u] = NoCall
                           /\ pc'[u] \notin PrepPC => msg'[u] = << >>
    BY <1>1, <1>2, <1>3 DEF IInv, Shape, PrepPC
  <2>2. logger_mutex' \in [Sinks -> Threads \cup {NoThread}]
    BY <1>1, <1>2 DEF IInv, Shape
  <2> QED BY <1>2, <2>1, <2>2 DEF IInv, Shape
<1>5. OneInside'
  <2>1. \A u \in Threads : Here(u)' = Here(u) BY <1>2 DEF Here
  <2>2. \A u \in Threads \ {t} : Inside(u)' <=> Inside(u) BY <1>2 DEF Inside
  <2>3. ~ Inside(t) /\ Inside(t)' BY <1>1, <1>2, <1>3 DEF Inside
  <2>4. /\ logger_mutex'[Here(t)] = t
        /\ \A s \in Sinks \ {Here(t)} : logger_mutex'[s] = logger_mutex[s]
    BY <1>1, <1>2 DEF IInv, Shape
  <2>5. NoThread \notin Threads BY SinkAssumption
  <2>6. ASSUME NEW u \in Threads, NEW s \in Sinks
        PROVE  logger_mutex'[s] = u <=> Inside(u)' /\ Here(u)' = s
    <3>1. logger_mutex[s] = u <=> Inside(u) /\ Here(u) = s BY DEF IInv, OneInside
    <3>2. CASE s = Here(t)
      BY <1>2, <2>1, <2>2, <2>3, <2>4, <2>5, <3>1, <3>2
    <3>3. CASE s # Here(t)
      BY <2>1, <2>2, <2>3, <2>4, <3>1, <3>3
    <3> QED BY <3>2, <3>3
  <2> QED BY <2>6 DEF OneInside
<1>6. InnerOwned'
  <2>1. \A u \in Threads : Here(u)' = Here(u) BY <1>2 DEF Here
  <2>2. \A k \in Mutexes : pc[t] \notin HeldAt[k] BY <1>1 DEF Mutexes, HeldAt
  <2> QED BY <1>2, <2>1, <2>2 DEF IInv, InnerOwned
<1>7. CallsFit'
  <2>1. pc'[t] \in PrepPC => call[t].op = "prepare_log_message"
    BY <1>1, <1>2 DEF PrepPC, Ops
  <2> QED BY <1>1, <1>2, <2>1 DEF IInv, CallsFit
<1>8. VectorsFit'
  <2>1. \A u \in Threads : pc[u] = "fill_conv_patterns" =>
          pc'[u] = "fill_conv_patterns" /\ Here(u)' = Here(u)
    BY <1>1, <1>2 DEF Here
  <2> QED BY <1>2, <2>1 DEF IInv, VectorsFit
<1>9. AllFit'
  <2>1. Fits(t)' BY <1>1, <1>2 DEF Fits, PrepPC, Ops
  <2>2. ASSUME NEW u \in Threads \ {t} PROVE Fits(u)'
    <3>1. Fits(u) BY DEF IInv, AllFit
    <3>2. Settings(call[u].sink)' = Settings(call[u].sink) BY <1>2, <2>2 DEF Settings
    <3> QED BY <1>2, <2>2, <3>1, <3>2 DEF Fits, Timed, Datetimes, WithTime, TimesFor
  <2> QED BY <2>1, <2>2 DEF AllFit
<1> QED BY <1>4, <1>5, <1>6, <1>7, <1>8, <1>9 DEF IInv

\* What a thread that has locked no mutex of its sink knows.
LEMMA HoldsNothing ==
  ASSUME IInv, NEW t \in Threads,
         pc[t] \notin {"fill_conv_patterns", "prep_localtime", "prep_strftime",
                       "prep_substitute"}
  PROVE  \A s \in Sinks, k \in Mutexes : mtx[s][k] # t
<1>1. \A k \in Mutexes : pc[t] \notin HeldAt[k] BY DEF Mutexes, HeldAt
<1> QED BY <1>1 DEF IInv, InnerOwned

\* The patterns fit the template for whoever is inside and not filling them.
LEMMA FitHere ==
  ASSUME IInv, NEW t \in Threads, Inside(t), pc[t] # "fill_conv_patterns"
  PROVE  sink[Here(t)].vec_conv_patterns = ConvPatterns(sink[Here(t)].msg_template)
<1>1. Here(t) \in Sinks BY CallInside DEF IInv, Inside
<1>2. \A u \in Threads : pc[u] = "fill_conv_patterns" => Here(u) # Here(t)
  BY Elsewhere DEF Inside
<1> QED BY <1>1, <1>2 DEF IInv, VectorsFit

\* A thread inside a sink finds its mutexes free.
LEMMA FindsFree ==
  ASSUME IInv, NEW t \in Threads, Inside(t), NEW k \in Mutexes, pc[t] \notin HeldAt[k]
  PROVE  mtx[Here(t)][k] = NoThread
<1>1. Here(t) \in Sinks BY CallInside DEF IInv, Inside
<1>2. mtx[Here(t)][k] \in Threads \cup {NoThread} BY <1>1 DEF IInv, Shape
<1>3. ASSUME NEW u \in Threads, mtx[Here(t)][k] = u PROVE FALSE
  <2>1. pc[u] \in HeldAt[k] /\ Here(u) = Here(t) BY <1>1, <1>3 DEF IInv, InnerOwned
  <2>2. u # t BY <2>1
  <2>3. Inside(u) BY <2>1 DEF HeldAt, Mutexes, Inside
  <2> QED BY <2>1, <2>2, <2>3, Elsewhere
<1> QED BY <1>2, <1>3

\* Steps of prepare_log_message() leave sinks and their patterns alone.
LEMMA PatternsKept ==
  ASSUME VectorsFit, NEW t \in Threads, DOMAIN pc = Threads, NEW place,
         pc[t] # "fill_conv_patterns", pc' = [pc EXCEPT ![t] = place],
         \A u \in Threads \ {t} : call'[u] = call[u], sink' = sink
  PROVE  VectorsFit'
<1>1. \A u \in Threads : pc[u] = "fill_conv_patterns" =>
        pc'[u] = "fill_conv_patterns" /\ Here(u)' = Here(u)
  BY DEF Here
<1> QED BY <1>1 DEF VectorsFit

\* The steps of prepare_log_message() that lock nothing for longer.
LEMMA PrepareIInv ==
  ASSUME IInv, NEW t \in Threads,
         pc[t] \in {"prepare_log_message", "prep_min_lvl", "prep_stack", "prep_template"},
         NEW place \in PrepPC \ {"prepare_log_message"},
         Goto(t, place), UNCHANGED <<async, sink, mtx, timeinfo>>,
         DOMAIN msg' = Threads, \A u \in Threads \ {t} : msg'[u] = msg[u],
         Fits(t)'
  PROVE  IInv'
<1>1. Inside(t) BY DEF Inside
<1>2. call[t].op = "prepare_log_message" BY DEF IInv, CallsFit, PrepPC
<1>3. place \notin Ops BY DEF PrepPC, Ops
<1>4. \A s \in Sinks, k \in Mutexes : mtx'[s][k] # t BY HoldsNothing
<1>5. DOMAIN pc = Threads BY DEF IInv, Shape
<1>6. VectorsFit' BY <1>5, PatternsKept DEF Goto, IInv
<1>7. /\ sink' \in [Sinks -> Object] /\ timeinfo' \in Times
      /\ mtx' \in [Sinks -> [Mutexes -> Threads \cup {NoThread}]]
  BY DEF IInv, Shape
<1> QED BY <1>1, <1>2, <1>3, <1>4, <1>6, <1>7, GotoIInv

\* The steps of prepare_log_message() with which it returns.
LEMMA RefuseIInv ==
  ASSUME IInv, NEW t \in Threads,
         pc[t] \in {"prepare_log_message", "prep_min_lvl", "prep_write"},
         Return(t), UNCHANGED <<async, sink, mtx, timeinfo>>
  PROVE  IInv'
<1>1. Inside(t) BY DEF Inside
<1>2. \A s \in Sinks, k \in Mutexes : mtx'[s][k] # t BY HoldsNothing
<1>3. DOMAIN pc = Threads BY DEF IInv, Shape
<1>4. \A u \in Threads \ {t} : call'[u] = call[u] BY DEF Return, IInv, Shape
<1>5. VectorsFit' BY <1>3, <1>4, PatternsKept DEF Return, IInv
<1>6. /\ sink' \in [Sinks -> Object] /\ timeinfo' \in Times
      /\ mtx' \in [Sinks -> [Mutexes -> Threads \cup {NoThread}]]
  BY DEF IInv, Shape
<1> QED BY <1>1, <1>2, <1>5, <1>6, ReturnIInv

\* The calls of one statement, which have locked nothing but Logger's mutex.
LEMMA ConfigureIInv ==
  ASSUME IInv, NEW t \in Threads,
         NEW op \in {"init_sink", "set_datetime_pattern", "set_enabled", "set_min_lvl"},
         NEW new \in Object, new.vec_conv_patterns = ConvPatterns(new.msg_template),
         NEW mutexes, mutexes = mtx[Here(t)] \/ mutexes = Unlocked,
         Configure(t, op, new, mutexes)
  PROVE  IInv'
<1>1. pc[t] = op /\ Inside(t) BY DEF Configure, At, Inside
<1>2. Here(t) \in Sinks BY <1>1, CallInside DEF IInv, Inside
<1>3. NoThread \notin Threads BY SinkAssumption
<1>4. /\ Return(t) /\ async' = async /\ timeinfo' = timeinfo
      /\ sink' = [sink EXCEPT ![Here(t)] = new]
      /\ mtx' = [mtx EXCEPT ![Here(t)] = mutexes]
  BY DEF Configure
<1>5. /\ sink' \in [Sinks -> Object] /\ sink'[Here(t)] = new
      /\ \A s \in Sinks \ {Here(t)} : sink'[s] = sink[s]
  BY <1>2, <1>4 DEF IInv, Shape
<1>6. Unlocked \in [Mutexes -> Threads \cup {NoThread}] BY DEF Unlocked
<1>7. mtx \in [Sinks -> [Mutexes -> Threads \cup {NoThread}]] BY DEF IInv, Shape
<1>8. mutexes \in [Mutexes -> Threads \cup {NoThread}] BY <1>2, <1>6, <1>7
<1>9. mtx' \in [Sinks -> [Mutexes -> Threads \cup {NoThread}]]
  BY <1>4, <1>7, <1>8
<1>10. \A u \in Threads, s \in Sinks, k \in Mutexes : mtx'[s][k] = u => mtx[s][k] = u
  <2> SUFFICES ASSUME NEW u \in Threads, NEW s \in Sinks, NEW k \in Mutexes, mtx'[s][k] = u
               PROVE  mtx[s][k] = u
    OBVIOUS
  <2>1. CASE s # Here(t) BY <1>4, <1>7, <2>1
  <2>2. CASE s = Here(t)
    <3>1. mtx'[s] = mutexes BY <1>2, <1>4, <1>7, <2>2
    <3>2. Unlocked[k] = NoThread BY DEF Unlocked
    <3> QED BY <1>3, <2>2, <3>1, <3>2
  <2> QED BY <2>1, <2>2
<1>11. pc[t] \notin {"fill_conv_patterns", "prep_localtime", "prep_strftime",
                     "prep_substitute"}
  BY <1>1
<1>12. \A s \in Sinks, k \in Mutexes : mtx'[s][k] # t BY <1>10, <1>11, HoldsNothing
<1>13. VectorsFit'
  <2>1. \A u \in Threads \ {t} : pc'[u] = pc[u] /\ Here(u)' = Here(u)
    BY <1>4 DEF Return, Here, IInv, Shape
  <2>2. ASSUME NEW s \in Sinks,
               \A u \in Threads : pc'[u] = "fill_conv_patterns" => Here(u)' # s
        PROVE  sink'[s].vec_conv_patterns = ConvPatterns(sink'[s].msg_template)
    <3>1. CASE s = Here(t) BY <1>5, <3>1
    <3>2. CASE s # Here(t)
      <4>1. \A u \in Threads : pc[u] = "fill_conv_patterns" => Here(u) # s
        BY <1>11, <2>1, <2>2
      <4> QED BY <1>5, <3>2, <4>1 DEF IInv, VectorsFit
    <3> QED BY <3>1, <3>2
  <2> QED BY <2>2 DEF VectorsFit
<1> QED BY <1>1, <1>4, <1>5, <1>9, <1>10, <1>12, <1>13, ReturnIInv

\* What the calls of one statement make of a sink is a sink, its patterns fit.
LEMMA NewObject ==
  ASSUME NEW config \in Config
  PROVE  /\ New(config) \in Object
         /\ New(config).vec_conv_patterns = ConvPatterns(New(config).msg_template)
BY PatternsAreSpecifiers DEF New, Object, Config

LEMMA SetNoTemplateIInv ==
  ASSUME IInv, NEW t \in Threads,
         InitSink(t) \/ SetDatetimePattern(t) \/ SetEnabled(t) \/ SetMinLvl(t)
  PROVE  IInv'
<1>1. Inside(t) /\ pc[t] # "fill_conv_patterns"
  BY DEF InitSink, SetDatetimePattern, SetEnabled, SetMinLvl, Configure, At, Inside
<1>2. Here(t) \in Sinks /\ call[t].config \in Config
  BY <1>1, CallInside DEF IInv, Inside
<1> DEFINE old == sink[Here(t)]
           config == call[t].config
<1>3. old \in Object /\ old.vec_conv_patterns = ConvPatterns(old.msg_template)
  BY <1>1, <1>2, FitHere DEF IInv, Shape
<1>4. CASE InitSink(t)
  BY <1>2, <1>4, NewObject, ConfigureIInv DEF InitSink
<1>5. CASE SetDatetimePattern(t)
  <2> DEFINE new == [old EXCEPT !.datetime_pattern = config.datetime_pattern]
  <2>1. new \in Object /\ new.vec_conv_patterns = ConvPatterns(new.msg_template)
    BY <1>2, <1>3 DEF Object, Config
  <2>2. Configure(t, "set_datetime_pattern", new, mtx[Here(t)])
    BY <1>5 DEF SetDatetimePattern
  <2> HIDE DEF new
  <2> QED BY <2>1, <2>2, ConfigureIInv
<1>6. CASE SetEnabled(t)
  <2> DEFINE new == [old EXCEPT !.enabled = config.enabled]
  <2>1. new \in Object /\ new.vec_conv_patterns = ConvPatterns(new.msg_template)
    BY <1>2, <1>3 DEF Object, Config
  <2>2. Configure(t, "set_enabled", new, mtx[Here(t)])
    BY <1>6 DEF SetEnabled
  <2> HIDE DEF new
  <2> QED BY <2>1, <2>2, ConfigureIInv
<1>7. CASE SetMinLvl(t)
  <2> DEFINE new == [old EXCEPT !.min_lvl = config.min_lvl]
  <2>1. new \in Object /\ new.vec_conv_patterns = ConvPatterns(new.msg_template)
    BY <1>2, <1>3 DEF Object, Config
  <2>2. Configure(t, "set_min_lvl", new, mtx[Here(t)])
    BY <1>7 DEF SetMinLvl
  <2> HIDE DEF new
  <2> QED BY <2>1, <2>2, ConfigureIInv
<1> QED BY <1>4, <1>5, <1>6, <1>7

LEMMA SetMsgTemplateIInv ==
  ASSUME IInv, NEW t \in Threads, SetMsgTemplate(t)
  PROVE  IInv'
<1>1. pc[t] = "set_msg_template" /\ Inside(t) BY DEF SetMsgTemplate, At, Inside
<1>2. Here(t) \in Sinks /\ call[t].config \in Config
  BY <1>1, CallInside DEF IInv, Inside
<1>3. /\ sink \in [Sinks -> Object] /\ call[t].config.msg_template \in Text
      /\ mtx \in [Sinks -> [Mutexes -> Threads \cup {NoThread}]]
  BY <1>2 DEF IInv, Shape, Config
<1>4. /\ sink' = [sink EXCEPT ![Here(t)].msg_template = call[t].config.msg_template]
      /\ mtx' = [mtx EXCEPT ![Here(t)]["msg_template"] = t]
      /\ Goto(t, "fill_conv_patterns")
      /\ async' = async /\ timeinfo' = timeinfo /\ msg' = msg
  BY DEF SetMsgTemplate
<1>5. sink' \in [Sinks -> Object]
  <2>1. [sink[Here(t)] EXCEPT !.msg_template = call[t].config.msg_template] \in Object
    BY <1>2, <1>3 DEF Object
  <2> QED BY <1>3, <1>4, <2>1
<1>6. \A s \in Sinks \ {Here(t)} : sink'[s] = sink[s] BY <1>3, <1>4
<1>7. mtx' \in [Sinks -> [Mutexes -> Threads \cup {NoThread}]] BY <1>3, <1>4
<1>8. \A s \in Sinks, k \in Mutexes :
        mtx'[s][k] = IF s = Here(t) /\ k = "msg_template" THEN t ELSE mtx[s][k]
  BY <1>3, <1>4
<1>9. \A u \in Threads \ {t}, s \in Sinks, k \in Mutexes :
        mtx'[s][k] = u => mtx[s][k] = u
  BY <1>8
<1>10. \A s \in Sinks, k \in Mutexes :
         mtx'[s][k] = t => "fill_conv_patterns" \in HeldAt[k] /\ Here(t) = s
  <2>1. \A s \in Sinks, k \in Mutexes : mtx[s][k] # t BY <1>1, HoldsNothing
  <2>2. "fill_conv_patterns" \in HeldAt["msg_template"] BY DEF HeldAt
  <2> QED BY <1>8, <2>1, <2>2
<1>11. /\ pc'[t] = "fill_conv_patterns" /\ Here(t)' = Here(t)
       /\ \A u \in Threads \ {t} : pc'[u] = pc[u] /\ Here(u)' = Here(u)
  BY <1>4 DEF Goto, Here, IInv, Shape
<1>12. VectorsFit'
  <2>1. ASSUME NEW s \in Sinks,
               \A u \in Threads : pc'[u] = "fill_conv_patterns" => Here(u)' # s
        PROVE  sink'[s].vec_conv_patterns = ConvPatterns(sink'[s].msg_template)
    <3>1. s # Here(t) BY <1>11, <2>1
    <3>2. \A u \in Threads : pc[u] = "fill_conv_patterns" => Here(u) # s
      BY <1>1, <1>11, <2>1
    <3> QED BY <1>6, <3>1, <3>2 DEF IInv, VectorsFit
  <2> QED BY <2>1 DEF VectorsFit
<1>13. Fits(t)' BY <1>11 DEF Fits, PrepPC
<1>14. /\ "fill_conv_patterns" \notin Ops /\ "fill_conv_patterns" \notin PrepPC
       /\ timeinfo' \in Times /\ DOMAIN msg' = Threads /\ msg'[t] = << >>
  BY <1>1, <1>4 DEF Ops, PrepPC, IInv, Shape
<1>15. \A u \in Threads \ {t} : msg'[u] = msg[u] BY <1>4
<1> QED
  BY <1>1, <1>4, <1>5, <1>6, <1>7, <1>9, <1>10, <1>12, <1>13, <1>14, <1>15, GotoIInv

LEMMA FillConvPatternsIInv ==
  ASSUME IInv, NEW t \in Threads, FillConvPatterns(t)
  PROVE  IInv'
<1>1. pc[t] = "fill_conv_patterns" /\ Inside(t) BY DEF FillConvPatterns, At, Inside
<1>2. Here(t) \in Sinks BY <1>1, CallInside DEF IInv, Inside
<1>3. /\ sink \in [Sinks -> Object]
      /\ mtx \in [Sinks -> [Mutexes -> Threads \cup {NoThread}]]
      /\ NoThread \notin Threads
  BY SinkAssumption DEF IInv, Shape
<1> DEFINE vec == ConvPatterns(sink[Here(t)].msg_template)
<1>4. /\ sink' = [sink EXCEPT ![Here(t)].vec_conv_patterns = vec]
      /\ mtx' = [mtx EXCEPT ![Here(t)]["msg_template"] = NoThread]
      /\ Return(t)
      /\ async' = async /\ timeinfo' = timeinfo
  BY DEF FillConvPatterns
<1>5. vec \in SUBSET Range(Specifiers) BY PatternsAreSpecifiers
<1> HIDE DEF vec
<1>6. sink' \in [Sinks -> Object]
  <2>1. [sink[Here(t)] EXCEPT !.vec_conv_patterns = vec] \in Object
    BY <1>2, <1>3, <1>5 DEF Object
  <2> QED BY <1>3, <1>4, <2>1
<1>7. \A s \in Sinks \ {Here(t)} : sink'[s] = sink[s] BY <1>3, <1>4
<1>8. mtx' \in [Sinks -> [Mutexes -> Threads \cup {NoThread}]] BY <1>3, <1>4
<1>9. \A s \in Sinks, k \in Mutexes :
        mtx'[s][k] = IF s = Here(t) /\ k = "msg_template" THEN NoThread ELSE mtx[s][k]
  BY <1>3, <1>4
<1>10. \A u \in Threads, s \in Sinks, k \in Mutexes : mtx'[s][k] = u => mtx[s][k] = u
  BY <1>3, <1>9
<1>11. \A s \in Sinks, k \in Mutexes : mtx'[s][k] # t
  <2>1. \A s \in Sinks, k \in Mutexes :
          mtx[s][k] = t => k = "msg_template" /\ Here(t) = s
    BY <1>1 DEF IInv, InnerOwned, HeldAt, Mutexes
  <2> QED BY <1>3, <1>9, <2>1
<1>12. VectorsFit'
  <2>1. \A u \in Threads \ {t} : pc'[u] = pc[u] /\ Here(u)' = Here(u)
    BY <1>4 DEF Return, Here, IInv, Shape
  <2>2. ASSUME NEW s \in Sinks,
               \A u \in Threads : pc'[u] = "fill_conv_patterns" => Here(u)' # s
        PROVE  sink'[s].vec_conv_patterns = ConvPatterns(sink'[s].msg_template)
    <3>1. CASE s = Here(t)
      <4>1. sink[Here(t)] \in Object BY <1>2, <1>3
      <4>2. sink'[s] = [sink[Here(t)] EXCEPT !.vec_conv_patterns = vec]
        BY <1>2, <1>3, <1>4, <3>1
      <4>3. sink'[s].vec_conv_patterns = vec BY <4>1, <4>2 DEF Object
      <4>4. sink'[s].msg_template = sink[Here(t)].msg_template BY <4>1, <4>2 DEF Object
      <4> QED BY <4>3, <4>4 DEF vec
    <3>2. CASE s # Here(t)
      <4>1. \A u \in Threads : pc[u] = "fill_conv_patterns" => Here(u) # s
        BY <2>1, <2>2, <3>2
      <4> QED BY <1>7, <3>2, <4>1 DEF IInv, VectorsFit
    <3> QED BY <3>1, <3>2
  <2> QED BY <2>2 DEF VectorsFit
<1> QED BY <1>1, <1>4, <1>6, <1>7, <1>8, <1>10, <1>11, <1>12, ReturnIInv

\* A thread at one of the places of prepare_log_message(), and what it knows.
LEMMA AtPrep ==
  ASSUME IInv, NEW t \in Threads, pc[t] \in PrepPC
  PROVE  /\ Inside(t) /\ Here(t) \in Sinks /\ Here(t) = call[t].sink /\ Fits(t)
         /\ call[t].op = "prepare_log_message" /\ call[t].message \in Message
         /\ DOMAIN pc = Threads /\ DOMAIN msg = Threads
         /\ sink[Here(t)].vec_conv_patterns = ConvPatterns(sink[Here(t)].msg_template)
<1>1. Inside(t) /\ pc[t] # "fill_conv_patterns" BY DEF Inside, PrepPC
<1>2. Here(t) \in Sinks /\ call[t].message \in Message
  BY <1>1, CallInside DEF IInv, Inside
<1> QED BY <1>1, <1>2, FitHere DEF IInv, AllFit, CallsFit, Shape, Here

LEMMA PrepEnabledIInv ==
  ASSUME IInv, NEW t \in Threads, PrepEnabled(t)
  PROVE  IInv'
<1>1. pc[t] = "prepare_log_message" BY DEF PrepEnabled, At
<1>2. UNCHANGED <<async, sink, mtx, timeinfo>> BY DEF PrepEnabled
<1>3. CASE sink[Here(t)].enabled
  <2>1. Goto(t, "prep_min_lvl") /\ msg' = msg BY <1>3 DEF PrepEnabled
  <2>2. Fits(t)'
    <3>1. pc'[t] = "prep_min_lvl" /\ call' = call /\ Here(t) = call[t].sink
      BY <1>1, <2>1, AtPrep DEF Goto, PrepPC
    <3> QED BY <1>2, <1>3, <3>1 DEF Fits
  <2>3. "prep_min_lvl" \in PrepPC \ {"prepare_log_message"} BY DEF PrepPC
  <2>4. DOMAIN msg' = Threads BY <2>1 DEF IInv, Shape
  <2> QED BY <1>1, <1>2, <2>1, <2>2, <2>3, <2>4, PrepareIInv
<1>4. CASE ~ sink[Here(t)].enabled
  <2>1. Return(t) BY <1>4 DEF PrepEnabled
  <2> QED BY <1>1, <1>2, <2>1, RefuseIInv
<1> QED BY <1>3, <1>4

LEMMA PrepMinLvlIInv ==
  ASSUME IInv, NEW t \in Threads, PrepMinLvl(t)
  PROVE  IInv'
<1>1. pc[t] = "prep_min_lvl" BY DEF PrepMinLvl, At
<1>2. UNCHANGED <<async, sink, mtx, timeinfo>> BY DEF PrepMinLvl
<1>3. CASE SevereEnough(sink[Here(t)].min_lvl, call[t].message)
  <2> DEFINE place == IF call[t].message.lvl = EAL_STACK THEN "prep_stack"
                                                          ELSE "prep_template"
  <2>1. Goto(t, place) /\ msg' = msg BY <1>3 DEF PrepMinLvl
  <2>2. Fits(t)'
    <3>1. pc'[t] = place /\ call' = call /\ Here(t) = call[t].sink /\ Fits(t)
      BY <1>1, <2>1, AtPrep DEF Goto, PrepPC
    <3>2. sink[Here(t)].enabled BY <1>1, <3>1 DEF Fits, PrepPC
    <3> QED BY <1>2, <1>3, <3>1, <3>2 DEF Fits
  <2>3. place \in PrepPC \ {"prepare_log_message"} BY DEF PrepPC
  <2>4. DOMAIN msg' = Threads BY <2>1 DEF IInv, Shape
  <2> HIDE DEF place
  <2> QED BY <1>1, <1>2, <2>1, <2>2, <2>3, <2>4, PrepareIInv
<1>4. CASE ~ SevereEnough(sink[Here(t)].min_lvl, call[t].message)
  <2>1. Return(t) BY <1>4 DEF PrepMinLvl
  <2> QED BY <1>1, <1>2, <2>1, RefuseIInv
<1> QED BY <1>3, <1>4

LEMMA PrepStackIInv ==
  ASSUME IInv, NEW t \in Threads, PrepStack(t)
  PROVE  IInv'
<1>1. pc[t] = "prep_stack" BY DEF PrepStack, At
<1>2. /\ UNCHANGED <<async, sink, mtx, timeinfo>> /\ Goto(t, "prep_write")
      /\ msg' = [msg EXCEPT ![t] = call[t].message.info["m"]]
  BY DEF PrepStack
<1>3. DOMAIN msg' = Threads /\ \A u \in Threads \ {t} : msg'[u] = msg[u]
  BY <1>2 DEF IInv, Shape
<1>4. Fits(t)'
  <2>1. /\ pc'[t] = "prep_write" /\ call' = call /\ Fits(t)
        /\ msg'[t] = call[t].message.info["m"]
    BY <1>1, <1>2, AtPrep DEF Goto, PrepPC
  <2>2. call[t].message.lvl = EAL_STACK /\ sink[call[t].sink].enabled
    BY <1>1, <2>1 DEF Fits, PrepPC
  <2>3. SevereEnough(sink[call[t].sink].min_lvl, call[t].message)
    BY <1>1, <2>1 DEF Fits, PrepPC
  <2>4. msg'[t] \in Lines(Settings(call[t].sink)', call[t].message, TimesFor(call[t].message)')
    BY <2>1, <2>2 DEF Lines
  <2> QED BY <1>2, <2>1, <2>2, <2>3, <2>4 DEF Fits
<1>5. "prep_write" \in PrepPC \ {"prepare_log_message"} BY DEF PrepPC
<1> QED BY <1>1, <1>2, <1>3, <1>4, <1>5, PrepareIInv

LEMMA PrepTemplateIInv ==
  ASSUME IInv, NEW t \in Threads, PrepTemplate(t)
  PROVE  IInv'
<1>1. pc[t] = "prep_template" BY DEF PrepTemplate, At
<1>2. /\ UNCHANGED <<async, sink, mtx, timeinfo>> /\ Goto(t, "prep_patterns")
      /\ msg' = [msg EXCEPT ![t] = sink[Here(t)].msg_template]
  BY DEF PrepTemplate
<1>3. DOMAIN msg' = Threads /\ \A u \in Threads \ {t} : msg'[u] = msg[u]
  BY <1>2 DEF IInv, Shape
<1>4. Fits(t)'
  <2>1. /\ pc'[t] = "prep_patterns" /\ call' = call /\ Fits(t)
        /\ msg'[t] = sink[call[t].sink].msg_template
    BY <1>1, <1>2, AtPrep DEF Goto, PrepPC
  <2>2. call[t].message.lvl # EAL_STACK /\ sink[call[t].sink].enabled
    BY <1>1, <2>1 DEF Fits, PrepPC
  <2>3. SevereEnough(sink[call[t].sink].min_lvl, call[t].message)
    BY <1>1, <2>1 DEF Fits, PrepPC
  <2> QED BY <1>2, <2>1, <2>2, <2>3 DEF Fits
<1>5. "prep_patterns" \in PrepPC \ {"prepare_log_message"} BY DEF PrepPC
<1> QED BY <1>1, <1>2, <1>3, <1>4, <1>5, PrepareIInv

\* The steps of prepare_log_message() that change what t has locked: from the
\* place they come from, t keeps the mutexes of the place they go to.
LEMMA LockingIInv ==
  ASSUME IInv, NEW t \in Threads, pc[t] \in PrepPC,
         NEW place \in PrepPC \ {"prepare_log_message"}, Goto(t, place),
         async' = async, sink' = sink, timeinfo' \in Times,
         NEW k \in Mutexes, NEW owner \in {t, NoThread},
         mtx' = [mtx EXCEPT ![Here(t)][k] = owner],
         owner = t => place \in HeldAt[k],
         \A j \in Mutexes \ {k} : pc[t] \in HeldAt[j] => place \in HeldAt[j],
         DOMAIN msg' = Threads, \A u \in Threads \ {t} : msg'[u] = msg[u],
         Fits(t)'
  PROVE  IInv'
<1>1. /\ Inside(t) /\ Here(t) \in Sinks /\ call[t].op = "prepare_log_message"
      /\ DOMAIN pc = Threads
  BY AtPrep
<1>2. mtx \in [Sinks -> [Mutexes -> Threads \cup {NoThread}]] BY DEF IInv, Shape
<1>3. mtx' \in [Sinks -> [Mutexes -> Threads \cup {NoThread}]] BY <1>1, <1>2
<1>4. \A s \in Sinks, j \in Mutexes :
        mtx'[s][j] = IF s = Here(t) /\ j = k THEN owner ELSE mtx[s][j]
  BY <1>1, <1>2
<1>5. t # NoThread /\ NoThread \notin Threads BY SinkAssumption
<1>6. \A u \in Threads \ {t}, s \in Sinks, j \in Mutexes :
        mtx'[s][j] = u => mtx[s][j] = u
  BY <1>4, <1>5
<1>7. \A s \in Sinks, j \in Mutexes : mtx'[s][j] = t => place \in HeldAt[j] /\ Here(t) = s
  <2>1. \A s \in Sinks, j \in Mutexes : mtx[s][j] = t => pc[t] \in HeldAt[j] /\ Here(t) = s
    BY DEF IInv, InnerOwned
  <2> QED BY <1>4, <1>5, <2>1
<1>8. place \notin Ops BY DEF PrepPC, Ops
<1>9. VectorsFit'
  <2>1. pc[t] # "fill_conv_patterns" BY DEF PrepPC
  <2> QED BY <1>1, <2>1, PatternsKept DEF Goto, IInv
<1>10. sink' \in [Sinks -> Object] BY DEF IInv, Shape
<1> QED BY <1>1, <1>3, <1>6, <1>7, <1>8, <1>9, <1>10, GotoIInv

\* Whatever localtime() says, strftime() leaves something in the buffer.
LEMMA SomeDatetime ==
  ASSUME NEW s \in Sinks, NEW m \in Message
  PROVE  Datetimes(s, m) # {}
<1>1. m.time \in TimesFor(m) BY DEF Message, TimesFor
<1>2. FormatTime(m.time, sink[s].datetime_pattern, Garbage) # {}
  BY TextAssumption DEF FormatTime
<1> QED BY <1>1, <1>2 DEF Datetimes

\* A step that leaves t's sink alone leaves the texts that its string may be.
LEMMA TimedNext ==
  ASSUME NEW t \in Threads, call' = call, sink' = sink, async' = async,
         NEW datetime \in Datetimes(call[t].sink, call[t].message),
         msg'[t] = WithTime(call[t].sink, datetime)
  PROVE  Timed(t)'
<1>1. Datetimes(call[t].sink, call[t].message)' = Datetimes(call[t].sink, call[t].message)
  BY DEF Datetimes, TimesFor
<1>2. \A d : WithTime(call[t].sink, d)' = WithTime(call[t].sink, d)
  BY DEF WithTime
<1>3. datetime \in Datetimes(call[t].sink, call[t].message)' BY <1>1
<1>4. msg'[t] = WithTime(call[t].sink, datetime)' BY <1>2
<1> QED BY <1>3, <1>4 DEF Timed

LEMMA PrepPatternsIInv ==
  ASSUME IInv, NEW t \in Threads, PrepPatterns(t)
  PROVE  IInv'
<1> DEFINE s == Here(t)
           m == call[t].message
           place == IF "d" \in sink[s].vec_conv_patterns THEN "prep_localtime"
                                                         ELSE "prep_substitute"
<1>1. pc[t] = "prep_patterns" BY DEF PrepPatterns, At
<1>2. /\ mtx' = [mtx EXCEPT ![s]["conv_pattern"] = t] /\ Goto(t, place)
      /\ UNCHANGED <<async, sink, timeinfo, msg>>
  BY DEF PrepPatterns
<1>3. /\ s \in Sinks /\ s = call[t].sink /\ Fits(t) /\ m \in Message /\ DOMAIN pc = Threads
      /\ DOMAIN msg = Threads
      /\ sink[s].vec_conv_patterns = ConvPatterns(sink[s].msg_template)
  BY <1>1, AtPrep DEF PrepPC
<1>4. Fits(t)'
  <2>1. pc'[t] = place /\ call' = call BY <1>2, <1>3 DEF Goto
  <2>2. /\ msg[t] = sink[s].msg_template /\ m.lvl # EAL_STACK /\ sink[s].enabled
        /\ SevereEnough(sink[s].min_lvl, m)
    BY <1>1, <1>3 DEF Fits, PrepPC
  <2>3. CASE "d" \in sink[s].vec_conv_patterns
    BY <1>2, <1>3, <2>1, <2>2, <2>3 DEF Fits
  <2>4. CASE "d" \notin sink[s].vec_conv_patterns
    <3>1. PICK datetime : datetime \in Datetimes(s, m) BY <1>3, SomeDatetime
    <3>2. msg[t] = WithTime(s, datetime) BY <1>3, <2>2, <2>4 DEF WithTime
    <3>3. Timed(t)' BY <1>2, <1>3, <2>1, <3>1, <3>2, TimedNext
    <3> QED BY <1>2, <1>3, <2>1, <2>2, <2>4, <3>3 DEF Fits
  <2> QED BY <2>3, <2>4
<1>5. place \in PrepPC \ {"prepare_log_message"} /\ place \in HeldAt["conv_pattern"]
  BY DEF PrepPC, HeldAt
<1>6. \A j \in Mutexes \ {"conv_pattern"} : pc[t] \notin HeldAt[j]
  BY <1>1 DEF Mutexes, HeldAt
<1>7. "conv_pattern" \in Mutexes /\ timeinfo' \in Times BY <1>2 DEF Mutexes, IInv, Shape
<1>8. pc[t] \in PrepPC BY <1>1 DEF PrepPC
<1> HIDE DEF place
<1> QED BY <1>2, <1>3, <1>4, <1>5, <1>6, <1>7, <1>8, LockingIInv

LEMMA PrepLocaltimeIInv ==
  ASSUME IInv, NEW t \in Threads, PrepLocaltime(t)
  PROVE  IInv'
<1> DEFINE s == Here(t)
           m == call[t].message
<1>1. pc[t] = "prep_localtime" BY DEF PrepLocaltime, At
<1>2. /\ mtx' = [mtx EXCEPT ![s]["datetime_pattern"] = t] /\ Goto(t, "prep_strftime")
      /\ async' = async /\ sink' = sink /\ msg' = msg /\ timeinfo' = m.time
  BY DEF PrepLocaltime
<1>3. /\ s \in Sinks /\ s = call[t].sink /\ Fits(t) /\ m \in Message /\ DOMAIN pc = Threads
      /\ DOMAIN msg = Threads
  BY <1>1, AtPrep DEF PrepPC
<1>4. Fits(t)'
  <2>1. pc'[t] = "prep_strftime" /\ call' = call BY <1>2, <1>3 DEF Goto
  <2>2. /\ msg[t] = sink[s].msg_template /\ m.lvl # EAL_STACK /\ sink[s].enabled
        /\ SevereEnough(sink[s].min_lvl, m) /\ "d" \in ConvPatterns(sink[s].msg_template)
    BY <1>1, <1>3 DEF Fits, PrepPC
  <2> QED BY <1>2, <1>3, <2>1, <2>2 DEF Fits
<1>5. "prep_strftime" \in PrepPC \ {"prepare_log_message"} BY DEF PrepPC
<1>6. \A j \in Mutexes : pc[t] \in HeldAt[j] => "prep_strftime" \in HeldAt[j]
  BY <1>1 DEF Mutexes, HeldAt
<1>7. "prep_strftime" \in HeldAt["datetime_pattern"] BY DEF HeldAt
<1>8. "datetime_pattern" \in Mutexes /\ timeinfo' \in Times
  BY <1>2, <1>3 DEF Mutexes, Message
<1>9. pc[t] \in PrepPC BY <1>1 DEF PrepPC
<1> QED BY <1>2, <1>3, <1>4, <1>5, <1>6, <1>7, <1>8, <1>9, LockingIInv

\* In asynchronous mode nobody else calls localtime().
LEMMA ReadableTimes ==
  ASSUME IInv, NEW t \in Threads, pc[t] = "prep_strftime"
  PROVE  Readable(t) \subseteq TimesFor(call[t].message)
<1>1. call[t].op = "prepare_log_message" /\ Fits(t) BY AtPrep DEF PrepPC
<1>2. timeinfo \in Times BY DEF IInv, Shape
<1>3. CASE ~ async BY <1>2, <1>3 DEF Readable, TimesFor
<1>4. CASE async
  <2>1. t = Worker BY <1>1, <1>4 DEF IInv, CallsFit
  <2>2. \A u \in Threads : pc[u] = "prep_localtime" => u = Worker
    BY <1>4, AtPrep DEF IInv, CallsFit, PrepPC
  <2>3. timeinfo = call[t].message.time BY <1>1, <1>4 DEF Fits
  <2> QED BY <1>4, <2>1, <2>2, <2>3 DEF Readable, TimesFor
<1> QED BY <1>3, <1>4

LEMMA PrepStrftimeIInv ==
  ASSUME IInv, NEW t \in Threads, PrepStrftime(t)
  PROVE  IInv'
<1> DEFINE s == Here(t)
           m == call[t].message
<1>1. pc[t] = "prep_strftime" BY DEF PrepStrftime, At
<1>2. /\ mtx' = [mtx EXCEPT ![s]["datetime_pattern"] = NoThread]
      /\ Goto(t, "prep_substitute")
      /\ async' = async /\ sink' = sink /\ timeinfo' = timeinfo
  BY DEF PrepStrftime
<1>3. /\ s \in Sinks /\ s = call[t].sink /\ Fits(t) /\ m \in Message /\ DOMAIN pc = Threads
      /\ DOMAIN msg = Threads
  BY <1>1, AtPrep DEF PrepPC
<1>4. PICK time \in Readable(t) :
        \E text \in FormatTime(time, sink[s].datetime_pattern, Garbage) :
          msg' = [msg EXCEPT ![t] = Replaced(@, "d", text)]
  BY DEF PrepStrftime
<1>5. PICK text \in FormatTime(time, sink[s].datetime_pattern, Garbage) :
        msg' = [msg EXCEPT ![t] = Replaced(msg[t], "d", text)]
  BY <1>4
<1>6. text \in Datetimes(s, m)
  <2>1. time \in TimesFor(m) BY <1>1, <1>4, ReadableTimes
  <2> QED BY <1>5, <2>1 DEF Datetimes
<1>7. Fits(t)'
  <2>1. pc'[t] = "prep_substitute" /\ call' = call BY <1>2, <1>3 DEF Goto
  <2>2. /\ msg[t] = sink[s].msg_template /\ m.lvl # EAL_STACK /\ sink[s].enabled
        /\ SevereEnough(sink[s].min_lvl, m) /\ "d" \in ConvPatterns(sink[s].msg_template)
    BY <1>1, <1>3 DEF Fits, PrepPC
  <2>3. msg'[t] = WithTime(s, text) BY <1>3, <1>5, <2>2 DEF WithTime
  <2>4. Timed(t)' BY <1>2, <1>3, <1>6, <2>1, <2>3, TimedNext
  <2> QED BY <1>2, <1>3, <2>1, <2>2, <2>4 DEF Fits
<1>8. "prep_substitute" \in PrepPC \ {"prepare_log_message"} BY DEF PrepPC
<1>9. \A j \in Mutexes \ {"datetime_pattern"} :
        pc[t] \in HeldAt[j] => "prep_substitute" \in HeldAt[j]
  BY <1>1 DEF Mutexes, HeldAt
<1>10. "datetime_pattern" \in Mutexes /\ timeinfo' \in Times /\ NoThread # t
  BY <1>2, SinkAssumption DEF Mutexes, IInv, Shape
<1>11. pc[t] \in PrepPC BY <1>1 DEF PrepPC
<1>12. DOMAIN msg' = Threads /\ \A u \in Threads \ {t} : msg'[u] = msg[u]
  BY <1>3, <1>5
<1> QED BY <1>2, <1>7, <1>8, <1>9, <1>10, <1>11, <1>12, LockingIInv

LEMMA PrepSubstituteIInv ==
  ASSUME IInv, NEW t \in Threads, PrepSubstitute(t)
  PROVE  IInv'
<1> DEFINE s == Here(t)
           m == call[t].message
<1>1. pc[t] = "prep_substitute" BY DEF PrepSubstitute, At
<1>2. /\ mtx' = [mtx EXCEPT ![s]["conv_pattern"] = NoThread] /\ Goto(t, "prep_write")
      /\ async' = async /\ sink' = sink /\ timeinfo' = timeinfo
      /\ msg' = [msg EXCEPT ![t] = Substitute(sink[s].vec_conv_patterns, msg[t], Value(m))]
  BY DEF PrepSubstitute
<1>3. /\ s \in Sinks /\ s = call[t].sink /\ Fits(t) /\ m \in Message /\ DOMAIN pc = Threads
      /\ DOMAIN msg = Threads
      /\ sink[s].vec_conv_patterns = ConvPatterns(sink[s].msg_template)
  BY <1>1, AtPrep DEF PrepPC
<1>4. Fits(t)'
  <2>1. pc'[t] = "prep_write" /\ call' = call BY <1>2, <1>3 DEF Goto
  <2>2. m.lvl # EAL_STACK /\ sink[s].enabled /\ SevereEnough(sink[s].min_lvl, m)
    BY <1>1, <1>3 DEF Fits, PrepPC
  <2>3. PICK datetime \in Datetimes(s, m) : msg[t] = WithTime(s, datetime)
    BY <1>1, <1>3 DEF Fits, Timed
  <2> DEFINE template == sink[s].msg_template
  <2>4. msg'[t] = Render(ConvPatterns(template), template, datetime, Value(m))
    BY <1>2, <1>3, <2>3 DEF Render, WithTime
  <2>5. msg'[t] \in Lines(Settings(s), m, TimesFor(m))
    BY <2>2, <2>3, <2>4 DEF Lines, Datetimes, Settings
  <2>6. /\ Settings(call[t].sink)' = Settings(s)
        /\ TimesFor(call[t].message)' = TimesFor(m)
    BY <1>2, <1>3, <2>1 DEF Settings, TimesFor
  <2>7. msg'[t] \in Lines(Settings(call[t].sink)', call'[t].message, TimesFor(call[t].message)')
    BY <2>1, <2>5, <2>6
  <2> QED BY <1>2, <1>3, <2>1, <2>2, <2>7 DEF Fits
<1>5. "prep_write" \in PrepPC \ {"prepare_log_message"} BY DEF PrepPC
<1>6. \A j \in Mutexes \ {"conv_pattern"} : pc[t] \notin HeldAt[j]
  BY <1>1 DEF Mutexes, HeldAt
<1>7. "conv_pattern" \in Mutexes /\ timeinfo' \in Times /\ NoThread # t
  BY <1>2, SinkAssumption DEF Mutexes, IInv, Shape
<1>8. pc[t] \in PrepPC BY <1>1 DEF PrepPC
<1>9. DOMAIN msg' = Threads /\ \A u \in Threads \ {t} : msg'[u] = msg[u]
  BY <1>2, <1>3
<1> QED BY <1>2, <1>4, <1>5, <1>6, <1>7, <1>8, <1>9, LockingIInv

LEMMA PrepWriteIInv ==
  ASSUME IInv, NEW t \in Threads, PrepWrite(t)
  PROVE  IInv'
BY RefuseIInv DEF PrepWrite, At

LEMMA NextIInv == IInv /\ [Next]_vars => IInv'
<1> SUFFICES ASSUME IInv, [Next]_vars PROVE IInv' OBVIOUS
<1>1. CASE UNCHANGED vars
  <2>1. /\ async' = async /\ sink' = sink /\ logger_mutex' = logger_mutex /\ mtx' = mtx
        /\ timeinfo' = timeinfo /\ pc' = pc /\ call' = call /\ msg' = msg
    BY <1>1 DEF vars
  <2>2. Shape' BY <2>1 DEF IInv, Shape
  <2>3. OneInside' /\ InnerOwned' /\ CallsFit' /\ VectorsFit'
    BY <2>1 DEF IInv, OneInside, Inside, Here, InnerOwned, CallsFit, VectorsFit
  <2>4. ASSUME NEW t \in Threads PROVE Fits(t)'
    <3>1. Fits(t) BY DEF IInv, AllFit
    <3> QED
      BY <2>1, <3>1 DEF Fits, Timed, Datetimes, WithTime, TimesFor, Settings
  <2> QED BY <2>2, <2>3, <2>4 DEF IInv, AllFit
<1>2. CASE Next
  <2>1. PICK t \in Threads :
          \/ \E c \in Calls : Enter(t, c)
          \/ LockSink(t) \/ Configuring(t) \/ Preparing(t)
    BY <1>2 DEF Next
  <2>2. CASE \E c \in Calls : Enter(t, c) BY <2>2, EnterIInv
  <2>3. CASE LockSink(t) BY <2>3, LockSinkIInv
  <2>4. CASE Configuring(t)
    BY <2>4, SetMsgTemplateIInv, FillConvPatternsIInv, SetNoTemplateIInv DEF Configuring
  <2>5. CASE Preparing(t)
    BY <2>5, PrepEnabledIInv, PrepMinLvlIInv, PrepStackIInv, PrepTemplateIInv,
       PrepPatternsIInv, PrepLocaltimeIInv, PrepStrftimeIInv, PrepSubstituteIInv,
       PrepWriteIInv
       DEF Preparing
  <2> QED BY <2>1, <2>2, <2>3, <2>4, <2>5
<1> QED BY <1>1, <1>2

-----------------------------------------------------------------------------

\* The invariant: each sink has at most one thread inside, which holds Logger's
\* mutex of the sink, and whose work so far fits the settings of the sink.
THEOREM SinkInvariance == Spec => []IInv
BY InitIInv, NextIInv, PTL DEF Spec

\* A thread inside a sink never waits for a mutex of the sink, in no order of
\* set_msg_template(), fill_conv_patterns() and prepare_log_message().
THEOREM NoDeadlockInside == Spec => []NeverBlockedInside
<1>1. IInv => NeverBlockedInside
  <2> SUFFICES ASSUME IInv, NEW t \in Threads, Inside(t), pc[t] \in DOMAIN Locks,
                      NEW k \in Locks[pc[t]]
               PROVE  mtx[Here(t)][k] = NoThread
    BY DEF NeverBlockedInside, CanLock
  <2>1. k \in Mutexes /\ pc[t] \notin HeldAt[k]
    BY DEF Locks, Mutexes, HeldAt
  <2> QED BY <2>1, FindsFree
<1> QED BY <1>1, SinkInvariance, PTL

\* Between the copy of the template and the end of the time's formatting, the
\* sink's template and vector are those of the copy.
THEOREM PatternsAlwaysFit == Spec => []PatternsFit
<1>1. IInv => PatternsFit
  <2> SUFFICES ASSUME IInv, NEW t \in Threads,
                      pc[t] \in {"prep_patterns", "prep_localtime", "prep_strftime"}
               PROVE  /\ msg[t] = sink[Here(t)].msg_template
                      /\ sink[Here(t)].vec_conv_patterns = ConvPatterns(msg[t])
    BY DEF PatternsFit
  <2>1. msg[t] = sink[Here(t)].msg_template BY DEF IInv, AllFit, Fits, Here
  <2>2. sink[Here(t)].vec_conv_patterns = ConvPatterns(sink[Here(t)].msg_template)
    BY FitHere DEF Inside
  <2> QED BY <2>1, <2>2
<1> QED BY <1>1, SinkInvariance, PTL

-----------------------------------------------------------------------------
(* The strings that are made of templates and messages are texts.          *)

TextsTyped ==
  /\ msg \in [Threads -> Text]
  /\ line.sink \in Sinks \cup {Promise!NoLine.sink} /\ line.text \in Text

\* A step that gives one thread's string a text, and writes no line.
LEMMA MsgTyped ==
  ASSUME TextsTyped, NEW t \in Threads, NEW text \in Text,
         msg' = [msg EXCEPT ![t] = text], line' = line
  PROVE  TextsTyped'
BY DEF TextsTyped

LEMMA KeepsTyped ==
  ASSUME TextsTyped, msg' = msg, line' = line PROVE TextsTyped'
BY DEF TextsTyped

\* A step that returns to Logger and writes no line.
LEMMA ReturnTyped ==
  ASSUME TextsTyped, NEW t \in Threads, Return(t), line' = line PROVE TextsTyped'
<1>1. << >> \in Text BY DEF Text
<1> QED BY <1>1, MsgTyped DEF Return

LEMMA PreparingTyped ==
  ASSUME IInv, TextsTyped, NEW t \in Threads, Preparing(t) PROVE TextsTyped'
<1>1. pc[t] \in PrepPC /\ pc[t] # "idle"
  BY DEF Preparing, PrepEnabled, PrepMinLvl, PrepStack, PrepTemplate, PrepPatterns,
         PrepLocaltime, PrepStrftime, PrepSubstitute, PrepWrite, At, PrepPC
<1>2. Here(t) \in Sinks /\ call[t].message \in Message BY <1>1, CallInside DEF IInv
<1>3. /\ sink[Here(t)].msg_template \in Text /\ sink[Here(t)].datetime_pattern \in Text
  BY <1>2 DEF IInv, Shape, Object
<1>4. msg[t] \in Text BY DEF TextsTyped
<1>5. CASE PrepEnabled(t)
  BY <1>5, ReturnTyped, KeepsTyped DEF PrepEnabled
<1>6. CASE PrepMinLvl(t)
  BY <1>6, ReturnTyped, KeepsTyped DEF PrepMinLvl
<1>7. CASE PrepStack(t)
  <2>1. call[t].message.info["m"] \in Text BY <1>2 DEF Message
  <2> QED BY <1>7, <2>1, MsgTyped DEF PrepStack
<1>8. CASE PrepTemplate(t) BY <1>3, <1>8, MsgTyped DEF PrepTemplate
<1>9. CASE PrepPatterns(t) BY <1>9, KeepsTyped DEF PrepPatterns
<1>10. CASE PrepLocaltime(t) BY <1>10, KeepsTyped DEF PrepLocaltime
<1>11. CASE PrepStrftime(t)
  <2>1. PICK time \in Readable(t) :
          \E text \in FormatTime(time, sink[Here(t)].datetime_pattern, Garbage) :
            msg' = [msg EXCEPT ![t] = Replaced(@, "d", text)]
    BY <1>11 DEF PrepStrftime
  <2>2. PICK text \in FormatTime(time, sink[Here(t)].datetime_pattern, Garbage) :
          msg' = [msg EXCEPT ![t] = Replaced(msg[t], "d", text)]
    BY <2>1
  <2>3. time \in Times BY <2>1 DEF IInv, Shape, Readable
  <2>4. text \in Text BY <1>3, <2>2, <2>3, FormatTimeType
  <2>5. Replaced(msg[t], "d", text) \in Text BY <1>4, <2>4, ReplacedType
  <2>6. line' = line BY <1>11 DEF PrepStrftime
  <2> QED BY <2>2, <2>5, <2>6, MsgTyped
<1>12. CASE PrepSubstitute(t)
  <2>1. PICK value : value = Value(call[t].message) OBVIOUS
  <2>2. \A c \in Letters : value[c] \in Text BY <1>2, <2>1, ValueType
  <2>3. PICK text : text = Substitute(sink[Here(t)].vec_conv_patterns, msg[t], value) OBVIOUS
  <2>4. text \in Text BY <1>4, <2>2, <2>3, SubstituteType
  <2>5. msg' = [msg EXCEPT ![t] = text] /\ line' = line
    BY <1>12, <2>1, <2>3 DEF PrepSubstitute
  <2> QED BY <2>4, <2>5, MsgTyped
<1>13. CASE PrepWrite(t)
  <2>1. line' = [sink |-> Here(t), text |-> msg[t]] BY <1>13 DEF PrepWrite
  <2>2. msg' = [msg EXCEPT ![t] = << >>] BY <1>13 DEF PrepWrite, Return
  <2>3. << >> \in Text BY DEF Text
  <2> QED BY <1>2, <1>4, <2>1, <2>2, <2>3 DEF TextsTyped
<1> QED BY <1>5, <1>6, <1>7, <1>8, <1>9, <1>10, <1>11, <1>12, <1>13 DEF Preparing

LEMMA TextsTypedNext == IInv /\ TextsTyped /\ [Next]_vars => TextsTyped'
<1> SUFFICES ASSUME IInv, TextsTyped, [Next]_vars PROVE TextsTyped' OBVIOUS
<1>1. CASE UNCHANGED vars BY <1>1, KeepsTyped DEF vars
<1>2. CASE Next
  <2>1. PICK t \in Threads :
          \/ \E c \in Calls : Enter(t, c)
          \/ LockSink(t) \/ Configuring(t) \/ Preparing(t)
    BY <1>2 DEF Next
  <2>2. CASE \E c \in Calls : Enter(t, c) BY <2>2, KeepsTyped DEF Enter
  <2>3. CASE LockSink(t) BY <2>3, KeepsTyped DEF LockSink
  <2>4. CASE Configuring(t)
    <3>1. (msg' = msg \/ Return(t)) /\ line' = line
      BY <2>4 DEF Configuring, SetMsgTemplate, FillConvPatterns, InitSink,
                  SetDatetimePattern, SetEnabled, SetMinLvl, Configure
    <3> QED BY <3>1, ReturnTyped, KeepsTyped
  <2>5. CASE Preparing(t) BY <2>5, PreparingTyped
  <2> QED BY <2>1, <2>2, <2>3, <2>4, <2>5
<1> QED BY <1>1, <1>2

\* Every variable has its type: in particular whatever a sink has made of a template
\* and of a message, and every line, is a text, with nothing missing and nothing else.
THEOREM SinkTypeCorrect == Spec => []TypeOK
<1>1. Init => TextsTyped
  <2> SUFFICES ASSUME Init PROVE TextsTyped OBVIOUS
  <2>1. << >> \in Text BY DEF Text
  <2>2. msg = [t \in Threads |-> << >>] /\ line = Promise!NoLine BY DEF Init
  <2> QED BY <2>1, <2>2 DEF TextsTyped, Promise!NoLine
<1>2. IInv /\ TextsTyped => TypeOK BY DEF IInv, TextsTyped, TypeOK
<1> QED BY <1>1, <1>2, SinkInvariance, TextsTypedNext, PTL DEF Spec

-----------------------------------------------------------------------------
(* What lines are made of.                                                 *)

\* In every state, and so where the sinks are new, replacing one specifier after the
\* other is replacing all at once, whatever the templates and texts.
THEOREM SubstitutedAtOnceAlways == Spec => []SubstitutedAtOnce
<1>1. SubstitutedAtOnce
  <2> SUFFICES ASSUME NEW template \in Templates, NEW text \in Texts, NEW datetime \in Texts
               PROVE  SubstitutesAtOnce(template, datetime,
                        [c \in Letters |-> IF c = "m" THEN text ELSE Host])
    BY DEF SubstitutedAtOnce, Letters
  <2>1. template \in Text /\ text \in Text /\ datetime \in Text BY InputsAssumption
  <2>2. Host \in Text BY TextAssumption
  <2>3. PICK value : value = [c \in Letters |-> IF c = "m" THEN text ELSE Host] OBVIOUS
  <2>4. value \in [Letters -> Text] BY <2>1, <2>2, <2>3
  <2>5. SubstitutesAtOnce(template, datetime, value) BY <2>1, <2>4, SubstitutionIsAtOnce
  <2> QED BY <2>3, <2>5
<1> QED BY <1>1, PTL

\* Likewise get_file_name() returns the last element of every path.
THEOREM FileNamesRightAlways == Spec => []FileNamesRight
<1>1. FileNamesRight BY InputsAssumption, FileNameIsLastElement DEF FileNamesRight
<1> QED BY <1>1, PTL

-----------------------------------------------------------------------------
\* Sink implements SinkPromise, which takes LogLine's definitions from an instance
\* of its own: they are the same.

LEMMA SameConfig == Promise!Config = Config
BY DEF Promise!Config, Config, Promise!Text, Text, Promise!LOG_LEVEL, LOG_LEVEL,
       Promise!EAL_INTERNAL, EAL_INTERNAL

LEMMA SameAccepts ==
  ASSUME NEW config, NEW m PROVE Promise!Accepts(config, m) <=> Accepts(config, m)
BY DEF Promise!Accepts, Accepts, Promise!SevereEnough, SevereEnough,
       Promise!EAL_STACK, EAL_STACK, Promise!EAL_INTERNAL, EAL_INTERNAL

LEMMA SameReplaced ==
  ASSUME NEW text, NEW c, NEW value
  PROVE  Promise!Replaced(text, c, value) = Replaced(text, c, value)
BY DEF Promise!Replaced, Replaced, Promise!Pass, Pass, Promise!Rests, Rests,
       Promise!StandsAt, StandsAt

LEMMA SameSpecifiers == Promise!Specifiers = Specifiers
BY DEF Promise!Specifiers, Specifiers

LEMMA SameConvPatterns ==
  ASSUME NEW template PROVE Promise!ConvPatterns(template) = ConvPatterns(template)
BY SameSpecifiers
   DEF Promise!ConvPatterns, ConvPatterns, Promise!StandsAt, StandsAt, Promise!Range, Range

LEMMA SameSubstitute ==
  ASSUME NEW patterns, NEW text, NEW value
  PROVE  Promise!Substitute(patterns, text, value) = Substitute(patterns, text, value)
BY SameReplaced, SameSpecifiers DEF Promise!Substitute, Substitute

LEMMA SameFormatTime ==
  ASSUME NEW time, NEW pattern, NEW garbage
  PROVE  Promise!FormatTime(time, pattern, garbage) = FormatTime(time, pattern, garbage)
BY DEF Promise!FormatTime, FormatTime, Promise!BufferSize, BufferSize,
       Promise!Strftime, Strftime, Promise!TimeField, TimeField

LEMMA SameValue ==
  ASSUME NEW m PROVE Promise!Value(m) = Value(m)
BY DEF Promise!Value, Value, Promise!FileName, FileName, Promise!FindLastOf, FindLastOf,
       Promise!npos, npos, Promise!Separators, Separators,
       Promise!loglevel_lookup, loglevel_lookup, Promise!LOG_LEVEL, LOG_LEVEL,
       Promise!EAL_INTERNAL, EAL_INTERNAL

LEMMA SameLines ==
  ASSUME NEW config, NEW m, NEW T
  PROVE  Promise!Lines(config, m, T) = Lines(config, m, T)
<1>1. ASSUME NEW patterns, NEW template, NEW datetime, NEW value
      PROVE  Promise!Render(patterns, template, datetime, value)
               = Render(patterns, template, datetime, value)
  BY SameReplaced, SameSubstitute DEF Promise!Render, Render
<1> QED
  BY <1>1, SameConvPatterns, SameFormatTime, SameValue
     DEF Promise!Lines, Lines, Promise!EAL_STACK, EAL_STACK

AllSettings == [s \in Sinks |-> Settings(s)]

LEMMA SettingsAreConfigs == Shape => AllSettings \in [Sinks -> Config]
  BY DEF Shape, Object, Settings, Config, AllSettings

\* A step that leaves mode and line alone and changes at most t's sink.
LEMMA SetStep ==
  ASSUME IInv, IInv', NEW t \in Threads, Inside(t), async' = async, line' = line,
         \A s \in Sinks \ {Here(t)} : sink'[s] = sink[s]
  PROVE  Promise!Next
<1>1. Here(t) \in Sinks BY CallInside DEF IInv, Inside
<1>2. AllSettings' \in [Sinks -> Config]
  BY DEF IInv, Shape, Object, Settings, Config, AllSettings
<1>3. \A s \in Sinks \ {Here(t)} : AllSettings'[s] = AllSettings[s]
  BY DEF AllSettings, Settings
<1>4. Promise!Set(Here(t)) BY <1>2, <1>3, SameConfig DEF Promise!Set, AllSettings
<1> QED BY <1>1, <1>4 DEF Promise!Next

\* write_message() gets a line of the settings that are in force.
LEMMA WriteStep ==
  ASSUME IInv, NEW t \in Threads, PrepWrite(t)
  PROVE  Promise!Next
<1> DEFINE s == Here(t)
           m == call[t].message
<1>1. pc[t] = "prep_write" BY DEF PrepWrite, At
<1>2. /\ async' = async /\ sink' = sink
      /\ line' = [sink |-> s, text |-> msg[t]]
  BY DEF PrepWrite
<1>3. s \in Sinks /\ s = call[t].sink /\ Fits(t)
  BY <1>1, AtPrep DEF PrepPC
<1>4. m \in {c.message : c \in Calls} BY <1>1, CallInside DEF IInv
<1>5. /\ sink[s].enabled /\ SevereEnough(sink[s].min_lvl, m)
      /\ msg[t] \in Lines(Settings(s), m, TimesFor(m))
  BY <1>1, <1>3 DEF Fits, PrepPC
<1>6. Accepts(AllSettings[s], m) BY <1>3, <1>5 DEF Accepts, AllSettings, Settings
<1>7. msg[t] \in Lines(AllSettings[s], m, IF async THEN {m.time} ELSE Times)
  BY <1>3, <1>5 DEF AllSettings, TimesFor
<1>8. AllSettings' = AllSettings BY <1>2 DEF AllSettings, Settings
<1>9. Promise!Write(s, m)
  BY <1>2, <1>6, <1>7, <1>8, SameAccepts, SameLines DEF Promise!Write, AllSettings
<1> QED BY <1>3, <1>4, <1>9 DEF Promise!Next

\* All other steps of a call change nothing that can be seen from outside.
LEMMA OtherStep ==
  ASSUME async' = async, sink' = sink, line' = line
  PROVE  UNCHANGED Promise!vars
BY DEF Promise!vars, Settings

LEMMA PromiseStep == IInv /\ IInv' /\ [Next]_vars => [Promise!Next]_(Promise!vars)
<1> SUFFICES ASSUME IInv, IInv', [Next]_vars
             PROVE  Promise!Next \/ UNCHANGED Promise!vars
  OBVIOUS
<1>1. CASE UNCHANGED vars BY <1>1, OtherStep DEF vars
<1>2. CASE Next
  <2>1. PICK t \in Threads :
          \/ \E c \in Calls : Enter(t, c)
          \/ LockSink(t) \/ Configuring(t) \/ Preparing(t)
    BY <1>2 DEF Next
  <2>2. CASE \E c \in Calls : Enter(t, c) BY <2>2, OtherStep DEF Enter
  <2>3. CASE LockSink(t) BY <2>3, OtherStep DEF LockSink
  <2>4. CASE Configuring(t)
    <3>1. Inside(t)
      BY <2>4 DEF Configuring, SetMsgTemplate, FillConvPatterns, InitSink, SetDatetimePattern,
                  SetEnabled, SetMinLvl, Configure, At, Inside
    <3>2. async' = async /\ line' = line
      BY <2>4 DEF Configuring, SetMsgTemplate, FillConvPatterns, InitSink, SetDatetimePattern,
                  SetEnabled, SetMinLvl, Configure
    <3>3. \A s \in Sinks \ {Here(t)} : sink'[s] = sink[s]
      <4>1. sink \in [Sinks -> Object] BY DEF IInv, Shape
      <4>2. CASE SetMsgTemplate(t) BY <4>1, <4>2 DEF SetMsgTemplate
      <4>3. CASE FillConvPatterns(t) BY <4>1, <4>3 DEF FillConvPatterns
      <4>4. CASE InitSink(t) BY <4>1, <4>4 DEF InitSink, Configure
      <4>5. CASE SetDatetimePattern(t) BY <4>1, <4>5 DEF SetDatetimePattern, Configure
      <4>6. CASE SetEnabled(t) BY <4>1, <4>6 DEF SetEnabled, Configure
      <4>7. CASE SetMinLvl(t) BY <4>1, <4>7 DEF SetMinLvl, Configure
      <4> QED BY <2>4, <4>2, <4>3, <4>4, <4>5, <4>6, <4>7 DEF Configuring
    <3> QED BY <3>1, <3>2, <3>3, SetStep
  <2>5. CASE PrepWrite(t) BY <2>5, WriteStep
  <2>6. CASE Preparing(t) /\ ~ PrepWrite(t)
    <3>1. async' = async /\ sink' = sink /\ line' = line
      BY <2>6 DEF Preparing, PrepEnabled, PrepMinLvl, PrepStack, PrepTemplate, PrepPatterns,
                  PrepLocaltime, PrepStrftime, PrepSubstitute
    <3> QED BY <3>1, OtherStep
  <2> QED BY <2>1, <2>2, <2>3, <2>4, <2>5, <2>6
<1> QED BY <1>1, <1>2

\* Sink keeps SinkPromise's promise: every line is made of the settings of one
\* instant and of its own message, whatever the threads' steps between.
THEOREM SinkRefinesPromise == Spec => ImplementsSinkPromise
<1>1. Init => Promise!Init
  <2> SUFFICES ASSUME Init PROVE Promise!Init OBVIOUS
  <2>1. AllSettings \in [Sinks -> Config] BY InitIInv, SettingsAreConfigs DEF IInv
  <2>2. async \in BOOLEAN BY SinkAssumption DEF Init
  <2> QED BY <2>1, <2>2, SameConfig DEF Init, Promise!Init, AllSettings
<1> QED BY <1>1, SinkInvariance, PromiseStep, PTL DEF Spec, Promise!Spec, ImplementsSinkPromise
=============================================================================
