---------------------------- MODULE SessionProofs ----------------------------
(***************************************************************************)
(* No conversation is lost or torn, for any number of turns and sessions,  *)
(* whatever throws, whenever the server dies and whatever is imported.     *)
(***************************************************************************)
EXTENDS AgentSession, TLAPS

Place == [home: Sessions, file: Path]
Message == [by: Contents, role: {"user", "assistant"}, media: SUBSET Place]

\* The shape of session.json and of what a turn keeps in memory: what it saw
\* and whether it asked does not matter here.
IsDoc(d) ==
  \E state, turns, messages, talk, active :
    d = [state |-> state, turns |-> turns, messages |-> messages, talk |-> talk,
         active |-> active]
IsWork(w) ==
  \E doc, seen, called, step, audio :
    w = [doc |-> doc, seen |-> seen, called |-> called, step |-> step, audio |-> audio]

Paired(messages, talk) ==
  /\ Len(messages) = 2 * Len(talk)
  /\ \A i \in DOMAIN talk : messages[2 * i - 1].by = talk[i] /\ messages[2 * i].by = talk[i]

\* A document in which nothing is lost or torn.
Good(d) ==
  /\ IsDoc(d)
  /\ d.turns \in Seq(Contents) /\ d.messages \in Seq(Message) /\ d.talk \in Seq(Contents)
  /\ Paired(d.messages, d.talk)
  /\ \A i \in DOMAIN d.turns : InSeq(d.turns[i], d.talk)

\* Names are told apart, and what turns are sent is what the code admits.
Named == Importer \notin Turns /\ None \notin Turns \cup {Importer} /\ ~IsDoc(None)
           /\ Guest \notin Turns /\ Inputs \subseteq Input /\ None \notin Inputs

Holding(t) == phase[t] \notin {"idle", "locking", "ended"}

Shaped ==
  /\ disk = [s \in Sessions |-> disk[s]]
  /\ phase = [t \in Turns |-> phase[t]]
  /\ reply = [t \in Turns |-> reply[t]]
  /\ input = [t \in Turns |-> input[t]]

Stored ==
  \A s \in Sessions : disk[s] # None => s \in dirs /\ Good(disk[s])

\* One holds the mutex, and what it remembers is good.
Held ==
  /\ \A t \in Turns : /\ phase[t] \notin {"idle", "ended"} => input[t] \in Inputs /\ Home(t) \in dirs
                      /\ Holding(t) => mutex = t
  /\ mutex \in Turns => /\ Holding(mutex)
                        /\ IsWork(work) /\ Good(work.doc) /\ work.audio \subseteq Path
                        /\ phase[mutex] = "storing" => InSeq(mutex, work.doc.talk)
                        /\ phase[mutex] = "stored" =>
                             disk[Home(mutex)] # None /\ InSeq(mutex, disk[Home(mutex)].turns)
  /\ mutex = Importer => /\ work.into \in Sessions
                         /\ work.from.id \in Sessions /\ Good(work.from.doc)
  /\ archive # None => archive.id \in Sessions /\ Good(archive.doc)

\* A result that was returned is stored, and whoever is about to store the
\* session again has it.
Remembered ==
  \A t \in Turns : reply[t] = "result" =>
    /\ phase[t] = "ended" /\ input[t] \in Inputs
    /\ disk[Home(t)] # None /\ InSeq(t, disk[Home(t)].turns)
    /\ mutex \in Turns /\ Home(mutex) = Home(t) => InSeq(t, work.doc.turns)

\* The inductive invariant.
Kept == Shaped /\ Stored /\ Held /\ Remembered

-----------------------------------------------------------------------------
(* Documents                                                               *)

LEMMA NewIsGood == Good(NewSession)
<1>1. IsDoc(NewSession)
  BY DEF NewSession, IsDoc
<1>2. NewSession.turns = <<>> /\ NewSession.messages = <<>> /\ NewSession.talk = <<>>
  BY DEF NewSession
<1>3. <<>> \in Seq(Contents) /\ <<>> \in Seq(Message)
  OBVIOUS
<1>4. Len(<<>>) = 0 /\ DOMAIN <<>> = {}
  OBVIOUS
<1>5. Paired(<<>>, <<>>)
  BY <1>4 DEF Paired
<1>6. QED BY <1>1, <1>2, <1>3, <1>4, <1>5 DEF Good

LEMMA InSeqAppend ==
  ASSUME NEW S, NEW q \in Seq(S), NEW x \in S
  PROVE  /\ q \o <<x>> \in Seq(S)
         /\ InSeq(x, q \o <<x>>)
         /\ \A y : InSeq(y, q) => InSeq(y, q \o <<x>>)
         /\ \A y : InSeq(y, q \o <<x>>) => y = x \/ InSeq(y, q)
<1> DEFINE r == q \o <<x>>
<1>1. r \in Seq(S) /\ Len(r) = Len(q) + 1 /\ Len(q) \in Nat
  OBVIOUS
<1>2. DOMAIN r = 1..(Len(q) + 1) /\ DOMAIN q = 1..Len(q)
  BY <1>1
<1>3. r[Len(q) + 1] = x /\ \A i \in 1..Len(q) : r[i] = q[i]
  OBVIOUS
<1> HIDE DEF r
<1>4. InSeq(x, r) /\ \A y : InSeq(y, q) => InSeq(y, r)
  BY <1>1, <1>2, <1>3 DEF InSeq
<1>5. ASSUME NEW y, InSeq(y, r) PROVE y = x \/ InSeq(y, q)
  BY <1>1, <1>2, <1>3, <1>5 DEF InSeq
<1>6. QED BY <1>1, <1>4, <1>5 DEF r

\* One pair of messages more, and the turn in the conversation.
LEMMA PairAppended ==
  ASSUME NEW d, Good(d), NEW t \in Contents, NEW u \in Message, NEW a \in Message,
         u.by = t, a.by = t, NEW n,
         IsDoc(n), n.turns = d.turns,
         n.messages = d.messages \o <<u, a>>, n.talk = d.talk \o <<t>>
  PROVE  Good(n) /\ InSeq(t, n.talk)
<1>1. d.messages \in Seq(Message) /\ d.talk \in Seq(Contents) /\ d.turns \in Seq(Contents)
  BY DEF Good
<1>2. n.talk \in Seq(Contents) /\ InSeq(t, n.talk) /\ \A y : InSeq(y, d.talk) => InSeq(y, n.talk)
  BY <1>1, InSeqAppend
<1>3. n.messages \in Seq(Message) /\ Len(n.messages) = Len(d.messages) + 2
  BY <1>1
<1>4. /\ \A i \in 1..Len(d.messages) : n.messages[i] = d.messages[i]
      /\ n.messages[Len(d.messages) + 1] = u /\ n.messages[Len(d.messages) + 2] = a
  BY <1>1
<1>5. /\ \A i \in 1..Len(d.talk) : n.talk[i] = d.talk[i]
      /\ n.talk[Len(d.talk) + 1] = t /\ Len(n.talk) = Len(d.talk) + 1
  BY <1>1
<1>6. Len(d.messages) = 2 * Len(d.talk) /\ Len(d.talk) \in Nat
  BY <1>1 DEF Good, Paired
<1>7. ASSUME NEW i \in DOMAIN n.talk
      PROVE  n.messages[2 * i - 1].by = n.talk[i] /\ n.messages[2 * i].by = n.talk[i]
  <2>1. CASE i \in 1..Len(d.talk)
    <3>1. 2 * i - 1 \in 1..Len(d.messages) /\ 2 * i \in 1..Len(d.messages)
      BY <2>1, <1>6
    <3>2. d.messages[2 * i - 1].by = d.talk[i] /\ d.messages[2 * i].by = d.talk[i]
      <4>1. i \in DOMAIN d.talk
        BY <2>1, <1>1
      <4>2. QED BY <4>1 DEF Good, Paired
    <3>3. QED BY <2>1, <3>1, <3>2, <1>4, <1>5
  <2>2. CASE i = Len(d.talk) + 1
    <3>1. 2 * i - 1 = Len(d.messages) + 1 /\ 2 * i = Len(d.messages) + 2
      BY <2>2, <1>6
    <3>2. QED BY <2>2, <3>1, <1>4, <1>5
  <2>3. i \in 1..(Len(d.talk) + 1)
    BY <1>2, <1>5
  <2>4. i \in 1..Len(d.talk) \/ i = Len(d.talk) + 1
    BY <2>3, <1>6
  <2>5. QED BY <2>1, <2>2, <2>4, Zenon
<1>8. Paired(n.messages, n.talk)
  <2>1. Len(n.messages) = 2 * Len(n.talk)
    BY <1>3, <1>5, <1>6
  <2>2. QED BY <2>1, <1>7 DEF Paired
<1>9. QED BY <1>1, <1>2, <1>3, <1>8 DEF Good

\* The turn itself, which is in the conversation already.
LEMMA TurnAppended ==
  ASSUME NEW d, Good(d), NEW t \in Contents, InSeq(t, d.talk), NEW n,
         n = [d EXCEPT !.turns = @ \o <<t>>, !.state = "ready", !.active = None]
  PROVE  /\ Good(n) /\ InSeq(t, n.turns)
         /\ \A y : InSeq(y, d.turns) => InSeq(y, n.turns)
<1>1. IsDoc(n) /\ n.turns = d.turns \o <<t>> /\ n.talk = d.talk /\ n.messages = d.messages
  BY DEF Good, IsDoc
<1>2. d.turns \in Seq(Contents)
  BY DEF Good
<1>3. /\ n.turns \in Seq(Contents) /\ InSeq(t, n.turns)
      /\ \A y : InSeq(y, d.turns) => InSeq(y, n.turns)
      /\ \A y : InSeq(y, n.turns) => y = t \/ InSeq(y, d.turns)
  <2>1. ASSUME NEW q \in Seq(Contents)
        PROVE  /\ q \o <<t>> \in Seq(Contents) /\ InSeq(t, q \o <<t>>)
               /\ \A y : InSeq(y, q) => InSeq(y, q \o <<t>>)
               /\ \A y : InSeq(y, q \o <<t>>) => y = t \/ InSeq(y, q)
    BY InSeqAppend
  <2>2. QED BY <1>1, <1>2, <2>1
<1>4. ASSUME NEW i \in DOMAIN n.turns
      PROVE  InSeq(n.turns[i], n.talk)
  <2> DEFINE y == n.turns[i]
  <2>1. InSeq(y, n.turns)
    BY DEF InSeq
  <2> HIDE DEF y
  <2>2. y = t \/ InSeq(y, d.turns)
    BY <1>3, <2>1
  <2>3. InSeq(y, d.turns) => InSeq(y, d.talk)
    BY DEF Good, InSeq
  <2>4. QED BY <1>1, <2>2, <2>3, Zenon DEF y
<1>5. QED BY <1>1, <1>3, <1>4 DEF Good

-----------------------------------------------------------------------------
(* Steps                                                                   *)

\* A turn that holds the mutex goes on: it may write the session it holds.
LEMMA HolderGoesOn ==
  ASSUME Named, Kept, NEW t \in Turns, Holding(t), NEW p,
         p \notin {"idle", "locking", "ended"},
         phase' = [phase EXCEPT ![t] = p],
         UNCHANGED <<dirs, mutex, input, reply, archive>>,
         IsWork(work'), Good(work'.doc), work'.audio \subseteq Path,
         \A u : InSeq(u, work.doc.turns) => InSeq(u, work'.doc.turns),
         p = "storing" => InSeq(t, work'.doc.talk),
         p = "stored" => disk'[Home(t)] # None /\ InSeq(t, disk'[Home(t)].turns),
         disk' = disk \/ disk' = [disk EXCEPT ![Home(t)] = work'.doc]
  PROVE  Kept'
<1>1. mutex = t /\ input[t] \in Inputs /\ Home(t) \in dirs /\ Home(t) \in Sessions
  BY DEF Kept, Held, Holding, Named, Input, Home
<1>2. /\ phase'[t] = p
      /\ \A u \in Turns \ {t} : phase'[u] = phase[u]
      /\ phase' = [u \in Turns |-> phase'[u]]
  BY DEF Kept, Shaped
<1>3. work'.doc # None
  BY DEF Named, Good
<1>4. /\ disk' = [s \in Sessions |-> disk'[s]]
      /\ \A s \in Sessions : disk'[s] = disk[s] \/ (s = Home(t) /\ disk'[s] = work'.doc)
  BY <1>1 DEF Kept, Shaped
<1>5. Shaped'
  BY <1>2, <1>4 DEF Kept, Shaped
<1>6. Stored'
  BY <1>1, <1>4 DEF Kept, Stored
<1>7. \A u \in Turns : Home(u)' = Home(u)
  BY DEF Home
<1>8. Held'
  <2>1. \A u \in Turns : /\ phase'[u] \notin {"idle", "ended"} => input[u] \in Inputs /\ Home(u) \in dirs
                         /\ Holding(u)' => mutex = u
    BY <1>1, <1>2 DEF Kept, Held, Holding
  <2>2. Holding(t)'
    BY <1>2 DEF Holding
  <2>3. mutex # Importer
    BY <1>1 DEF Named
  <2>4. phase'[t] = "stored" => disk'[Home(t)] # None /\ InSeq(t, disk'[Home(t)].turns)
    BY <1>2
  <2>5. phase'[t] = "storing" => InSeq(t, work'.doc.talk)
    BY <1>2
  <2>6. archive # None => archive.id \in Sessions /\ Good(archive.doc)
    BY DEF Kept, Held
  <2>7. QED BY <1>1, <1>7, <2>1, <2>2, <2>3, <2>4, <2>5, <2>6 DEF Held
<1>9. Remembered'
  <2> SUFFICES ASSUME NEW u \in Turns, reply[u] = "result"
               PROVE  /\ phase'[u] = "ended" /\ input[u] \in Inputs
                      /\ disk'[Home(u)] # None /\ InSeq(u, disk'[Home(u)].turns)
                      /\ Home(t) = Home(u) => InSeq(u, work'.doc.turns)
    BY <1>1, <1>7 DEF Remembered
  <2>1. /\ phase[u] = "ended" /\ u # t /\ input[u] \in Inputs
        /\ disk[Home(u)] # None /\ InSeq(u, disk[Home(u)].turns)
        /\ Home(t) = Home(u) => InSeq(u, work.doc.turns)
    BY <1>1 DEF Kept, Remembered, Holding
  <2>2. Home(u) \in Sessions
    BY <2>1 DEF Named, Input, Home
  <2>3. QED BY <1>2, <1>3, <1>4, <2>1, <2>2
<1>10. QED BY <1>5, <1>6, <1>8, <1>9 DEF Kept

\* It gives the mutex back; a failure writes the session it holds.
LEMMA HolderLeaves ==
  ASSUME Named, Kept, NEW t \in Turns, Holding(t),
         phase' = [phase EXCEPT ![t] = "ended"], mutex' = None,
         UNCHANGED <<dirs, input, archive>>,
         NEW r, reply' = [reply EXCEPT ![t] = r],
         r = "result" => phase[t] = "stored" /\ disk' = disk,
         NEW d, Good(d), d.turns = work.doc.turns,
         disk' = disk \/ disk' = [disk EXCEPT ![Home(t)] = d]
  PROVE  Kept'
<1>1. mutex = t /\ input[t] \in Inputs /\ Home(t) \in dirs /\ Home(t) \in Sessions
  BY DEF Kept, Held, Holding, Named, Input, Home
<1>2. /\ phase'[t] = "ended" /\ reply'[t] = r
      /\ \A u \in Turns \ {t} : phase'[u] = phase[u] /\ reply'[u] = reply[u]
      /\ phase' = [u \in Turns |-> phase'[u]] /\ reply' = [u \in Turns |-> reply'[u]]
  BY DEF Kept, Shaped
<1>3. d # None
  BY DEF Named, Good
<1>4. /\ disk' = [s \in Sessions |-> disk'[s]]
      /\ \A s \in Sessions : disk'[s] = disk[s] \/ (s = Home(t) /\ disk'[s] = d)
  BY <1>1 DEF Kept, Shaped
<1>5. Shaped'
  BY <1>2, <1>4 DEF Kept, Shaped
<1>6. Stored'
  BY <1>1, <1>4 DEF Kept, Stored
<1>7. \A u \in Turns : Home(u)' = Home(u)
  BY DEF Home
<1>8. Held'
  <2>1. \A u \in Turns : /\ phase'[u] \notin {"idle", "ended"} => input[u] \in Inputs /\ Home(u) \in dirs
                         /\ ~Holding(u)'
    BY <1>1, <1>2 DEF Kept, Held, Holding
  <2>2. mutex' \notin Turns /\ mutex' # Importer
    BY DEF Named
  <2>3. QED BY <1>7, <2>1, <2>2 DEF Kept, Held
<1>9. Remembered'
  <2> SUFFICES ASSUME NEW u \in Turns, reply'[u] = "result"
               PROVE  /\ phase'[u] = "ended" /\ input[u] \in Inputs
                      /\ disk'[Home(u)] # None /\ InSeq(u, disk'[Home(u)].turns)
    BY <1>7 DEF Remembered, Named
  <2>1. CASE u = t
    BY <1>1, <1>2, <2>1 DEF Kept, Held
  <2>2. CASE u # t
    <3>1. /\ phase'[u] = "ended" /\ input[u] \in Inputs
          /\ disk[Home(u)] # None /\ InSeq(u, disk[Home(u)].turns)
          /\ Home(t) = Home(u) => InSeq(u, work.doc.turns)
      BY <1>1, <1>2, <2>2 DEF Kept, Remembered
    <3>2. Home(u) \in Sessions
      BY <3>1 DEF Named, Input, Home
    <3>3. QED BY <1>3, <1>4, <3>1, <3>2
  <2>3. QED BY <2>1, <2>2
<1>10. QED BY <1>5, <1>6, <1>8, <1>9 DEF Kept

-----------------------------------------------------------------------------
\* What a turn that holds the mutex remembers.
LEMMA HolderRemembers ==
  ASSUME Named, Kept, NEW t \in Turns, Holding(t)
  PROVE  /\ mutex = t /\ input[t] \in Input /\ Home(t) \in Sessions
         /\ IsWork(work) /\ Good(work.doc) /\ work.audio \subseteq Path
         /\ phase = [u \in Turns |-> phase[u]]
         /\ phase[t] = "storing" => InSeq(t, work.doc.talk)
BY DEF Kept, Held, Holding, Named, Input, Home, Shaped

Onward(p) == p \notin {"idle", "locking", "ended", "storing", "stored"}

LEMMA StaysKept ==
  ASSUME Named, Kept, NEW t \in Turns, Holding(t), NEW p, Onward(p), Goto(t, p),
         UNCHANGED <<disk, dirs, mutex, input, reply, archive>>,
         IsWork(work'), work'.doc = work.doc, work'.audio \subseteq Path
  PROVE  Kept'
<1>1. Good(work'.doc)
  BY HolderRemembers
<1>2. QED BY <1>1, HolderGoesOn DEF Goto, Onward

LEMMA TransitionKept ==
  ASSUME Named, Kept, NEW t \in Turns, Holding(t), NEW state, NEW next, Onward(next),
         Transition(t, state, next), UNCHANGED <<dirs, mutex, input, reply, archive>>
  PROVE  Kept'
<1> DEFINE doc == [work.doc EXCEPT !.state = state, !.active = t]
<1>1. IsWork(work) /\ Good(work.doc) /\ work.audio \subseteq Path
  BY HolderRemembers
<1>2. Good(doc) /\ doc.turns = work.doc.turns
  <2>1. ASSUME NEW d, d = work.doc, NEW n, n = [d EXCEPT !.state = state, !.active = t]
        PROVE  Good(n) /\ n.turns = d.turns
    <3>1. Good(d)
      BY <1>1, <2>1
    <3>2. /\ IsDoc(n) /\ n.turns = d.turns /\ n.talk = d.talk /\ n.messages = d.messages
      BY <2>1, <3>1 DEF Good, IsDoc
    <3>3. QED BY <3>1, <3>2 DEF Good
  <2>2. QED BY <2>1, Zenon
<1>3. PICK p : /\ p = next \/ p = "failing"
               /\ phase' = [phase EXCEPT ![t] = p]
  BY DEF Transition, Goto
<1>4. work' = [work EXCEPT !.doc = doc] /\ disk' = [disk EXCEPT ![Home(t)] = doc]
  BY DEF Transition, Written
<1> HIDE DEF doc
<1>5. IsWork(work') /\ work'.doc = doc /\ work'.audio = work.audio
  BY <1>1, <1>4 DEF IsWork
<1>6. QED BY <1>1, <1>2, <1>3, <1>4, <1>5, HolderGoesOn DEF Onward

LEMMA TransitionsKeep ==
  ASSUME Named, Kept, NEW t \in Turns,
         \/ ReceiveInput(t) \/ Hear(t) \/ Prepare(t) \/ Plan(t) \/ StreamAnswer(t)
         \/ AskTool(t) \/ Speak(t)
  PROVE  Kept'
<1>1. CASE ReceiveInput(t)
  BY <1>1, TransitionKept DEF ReceiveInput, At, Holding, Onward
<1>2. CASE Hear(t)
  BY <1>2, TransitionKept DEF Hear, At, Holding, Onward
<1>3. CASE Prepare(t)
  BY <1>3, TransitionKept DEF Prepare, At, Holding, Onward
<1>4. CASE Plan(t)
  BY <1>4, TransitionKept DEF Plan, At, Holding, Onward
<1>5. CASE StreamAnswer(t)
  BY <1>5, TransitionKept DEF StreamAnswer, At, Holding, Onward
<1>6. CASE AskTool(t)
  BY <1>6, TransitionKept DEF AskTool, At, Holding, Onward
<1>7. CASE Speak(t)
  BY <1>7, TransitionKept DEF Speak, At, Holding, Onward
<1>8. QED BY <1>1, <1>2, <1>3, <1>4, <1>5, <1>6, <1>7

LEMMA ConcludeKeeps ==
  ASSUME Named, Kept, NEW t \in Turns, Conclude(t)
  PROVE  Kept'
<1>1. Holding(t) /\ UNCHANGED <<dirs, mutex, input, reply, archive>>
  BY DEF Conclude, At, Holding
<1>2. PICK next \in {"persisting", "speaking"} :
        \/ Goto(t, next) /\ UNCHANGED <<disk, work>>
        \/ Transition(t, "llm_final", next)
  BY DEF Conclude
<1>3. Onward(next)
  BY <1>2 DEF Onward
<1>4. IsWork(work) /\ work.audio \subseteq Path
  BY <1>1, HolderRemembers
<1>5. QED BY <1>1, <1>2, <1>3, <1>4, StaysKept, TransitionKept

LEMMA StaysKeep ==
  ASSUME Named, Kept, NEW t \in Turns,
         SaveUploads(t) \/ Transcribe(t) \/ StepLimit(t) \/ Answer(t) \/ Throw(t)
  PROVE  Kept'
<1>1. PICK p : Onward(p) /\ Goto(t, p)
  BY DEF SaveUploads, Transcribe, StepLimit, Answer, Throw, Onward
<1>2. Holding(t)
  BY DEF SaveUploads, Transcribe, StepLimit, Answer, Throw, Throwing, At, Holding
<1>3. UNCHANGED <<disk, dirs, mutex, work, input, reply, archive>>
  BY DEF SaveUploads, Transcribe, StepLimit, Answer, Throw
<1>4. IsWork(work) /\ work.audio \subseteq Path
  BY <1>2, HolderRemembers
<1>5. QED BY <1>1, <1>2, <1>3, <1>4, StaysKept

LEMMA LookKeeps ==
  ASSUME Named, Kept, NEW t \in Turns, Look(t)
  PROVE  Kept'
<1>1. Holding(t) /\ Goto(t, "planning") /\ Onward("planning")
  BY DEF Look, At, Holding, Onward
<1>2. UNCHANGED <<disk, dirs, mutex, input, reply, archive>>
  BY DEF Look
<1>3. PICK seen, step : work' = [work EXCEPT !.seen = seen, !.called = TRUE, !.step = step]
  BY DEF Look
<1>4. IsWork(work) /\ work.audio \subseteq Path
  BY <1>1, HolderRemembers
<1>5. IsWork(work') /\ work'.doc = work.doc /\ work'.audio = work.audio
  BY <1>3, <1>4 DEF IsWork
<1>6. QED BY <1>1, <1>2, <1>4, <1>5, StaysKept

LEMMA SynthesizeKeeps ==
  ASSUME Named, Kept, NEW t \in Turns, Synthesize(t)
  PROVE  Kept'
<1>1. PICK p : Holding(t) /\ Goto(t, p) /\ Onward(p)
  BY DEF Synthesize, At, Holding, Onward
<1>2. UNCHANGED <<disk, dirs, mutex, input, reply, archive>>
  BY DEF Synthesize
<1> DEFINE wav == Reply(Len(work.doc.turns))
<1>3. work' = [work EXCEPT !.audio = {wav}]
  BY DEF Synthesize
<1>4. IsWork(work) /\ Good(work.doc)
  BY <1>1, HolderRemembers
<1>5. Len(work.doc.turns) \in Nat
  BY <1>4 DEF Good
<1>6. wav \in Path
  BY <1>5 DEF Path, Reply
<1> HIDE DEF wav
<1>7. IsWork(work') /\ work'.doc = work.doc /\ work'.audio = {wav}
  BY <1>3, <1>4 DEF IsWork
<1>8. QED BY <1>1, <1>2, <1>6, <1>7, StaysKept

LEMMA MediaOfUser ==
  ASSUME NEW t \in Turns, input[t] \in Input
  PROVE  UserMedia(t) \subseteq Path
<1>1. input[t].file \in Names \cup {"none"}
  BY DEF Input
<1>2. VoicePath(t) \in Path
  BY DEF VoicePath, Upload, Path
<1>3. Attached(t) => AttachmentPath(t) \in Path
  BY <1>1 DEF Attached, AttachmentPath, Upload, Path
<1>4. QED BY <1>2, <1>3 DEF UserMedia

LEMMA LocatedPlaces ==
  ASSUME NEW s \in Sessions, NEW ps \in SUBSET Path
  PROVE  Located(s, ps) \subseteq Place
BY DEF Located, Place

LEMMA AppendKeeps ==
  ASSUME Named, Kept, NEW t \in Turns, AppendMessages(t)
  PROVE  Kept'
<1> DEFINE u == [by |-> t, role |-> "user", media |-> Located(Home(t), UserMedia(t))]
           a == [by |-> t, role |-> "assistant", media |-> Located(Home(t), work.audio)]
<1>1. Holding(t) /\ phase[t] = "persisting"
  BY DEF AppendMessages, At, Holding
<1>2. UNCHANGED <<disk, dirs, mutex, input, reply, archive>>
  BY DEF AppendMessages
<1>3. /\ input[t] \in Input /\ Home(t) \in Sessions
      /\ IsWork(work) /\ Good(work.doc) /\ work.audio \subseteq Path
  BY <1>1, HolderRemembers
<1>4. work' = [work EXCEPT !.doc.messages = @ \o <<u, a>>, !.doc.talk = @ \o <<t>>]
  BY DEF AppendMessages
<1>5. t \in Contents
  BY DEF Contents
<1>6. u \in Message /\ u.by = t
  <2>1. Located(Home(t), UserMedia(t)) \subseteq Place
    BY <1>3, MediaOfUser, LocatedPlaces
  <2>2. QED BY <1>5, <2>1 DEF Message
<1>7. a \in Message /\ a.by = t
  <2>1. Located(Home(t), work.audio) \subseteq Place
    BY <1>3, LocatedPlaces
  <2>2. QED BY <1>5, <2>1 DEF Message
<1> HIDE DEF u, a
<1>8. /\ IsWork(work') /\ work'.audio = work.audio
      /\ IsDoc(work'.doc) /\ work'.doc.turns = work.doc.turns
      /\ work'.doc.messages = work.doc.messages \o <<u, a>>
      /\ work'.doc.talk = work.doc.talk \o <<t>>
  BY <1>3, <1>4 DEF IsWork, IsDoc, Good
<1>9. Good(work'.doc) /\ InSeq(t, work'.doc.talk)
  BY <1>3, <1>5, <1>6, <1>7, <1>8, PairAppended
<1>10. PICK p : p \in {"storing", "failing"} /\ phase' = [phase EXCEPT ![t] = p]
  BY DEF AppendMessages, Goto
<1>11. QED BY <1>1, <1>2, <1>3, <1>8, <1>9, <1>10, HolderGoesOn

LEMMA StoreKeeps ==
  ASSUME Named, Kept, NEW t \in Turns, Store(t)
  PROVE  Kept'
<1> DEFINE doc == [work.doc EXCEPT !.turns = @ \o <<t>>, !.state = "ready", !.active = None]
<1>1. Holding(t) /\ phase[t] = "storing"
  BY DEF Store, At, Holding
<1>2. UNCHANGED <<dirs, mutex, input, reply, archive>>
  BY DEF Store
<1>3. /\ Home(t) \in Sessions /\ t \in Contents
      /\ IsWork(work) /\ Good(work.doc) /\ work.audio \subseteq Path
      /\ InSeq(t, work.doc.talk)
  BY <1>1, HolderRemembers DEF Contents
<1>4. /\ Good(doc) /\ InSeq(t, doc.turns)
      /\ \A y : InSeq(y, work.doc.turns) => InSeq(y, doc.turns)
  <2>1. \A n : n = doc => /\ Good(n) /\ InSeq(t, n.turns)
                          /\ \A y : InSeq(y, work.doc.turns) => InSeq(y, n.turns)
    BY <1>3, TurnAppended
  <2>2. QED BY <2>1
<1>5. work' = [work EXCEPT !.doc = doc] /\ disk' = [disk EXCEPT ![Home(t)] = doc]
  BY DEF Store, Written
<1>6. PICK p : p \in {"stored", "failing"} /\ phase' = [phase EXCEPT ![t] = p]
  BY DEF Store, Goto
<1> HIDE DEF doc
<1>7. IsWork(work') /\ work'.doc = doc /\ work'.audio = work.audio
  BY <1>3, <1>5 DEF IsWork
<1>8. disk'[Home(t)] = doc /\ doc # None
  BY <1>3, <1>4, <1>5 DEF Kept, Shaped, Named, Good
<1>9. QED BY <1>1, <1>2, <1>3, <1>4, <1>5, <1>6, <1>7, <1>8, HolderGoesOn

LEMMA LeavesKeep ==
  ASSUME Named, Kept, NEW t \in Turns, Finish(t) \/ Fail(t)
  PROVE  Kept'
<1>1. Holding(t)
  BY DEF Finish, Fail, At, Holding
<1>2. UNCHANGED <<dirs, input, archive>> /\ mutex' = None /\ phase' = [phase EXCEPT ![t] = "ended"]
  BY DEF Finish, Fail, Goto
<1>3. Good(work.doc)
  BY <1>1, HolderRemembers
<1>4. CASE Finish(t)
  <2>1. PICK r : reply' = [reply EXCEPT ![t] = r]
    BY <1>4 DEF Finish
  <2>2. phase[t] = "stored" /\ disk' = disk
    BY <1>4 DEF Finish, At
  <2>3. QED BY <1>1, <1>2, <1>3, <2>1, <2>2, HolderLeaves
<1>5. CASE Fail(t)
  <2> DEFINE d == [work.doc EXCEPT !.state = "failed", !.active = t]
  <2>1. reply' = [reply EXCEPT ![t] = "error"] /\ disk' = [disk EXCEPT ![Home(t)] = d]
    BY <1>5 DEF Fail, Written
  <2>2. Good(d) /\ d.turns = work.doc.turns
    <3>1. ASSUME NEW e, e = work.doc, NEW n, n = [e EXCEPT !.state = "failed", !.active = t]
          PROVE  Good(n) /\ n.turns = e.turns
      <4>1. Good(e)
        BY <1>3, <3>1
      <4>2. /\ IsDoc(n) /\ n.turns = e.turns /\ n.talk = e.talk /\ n.messages = e.messages
        BY <3>1, <4>1 DEF Good, IsDoc
      <4>3. QED BY <4>1, <4>2 DEF Good
    <3>2. QED BY <3>1, Zenon
  <2> HIDE DEF d
  <2>3. QED BY <1>1, <1>2, <2>1, <2>2, HolderLeaves
<1>6. QED BY <1>4, <1>5

-----------------------------------------------------------------------------
(* The beginning of a turn, and what else takes the mutex                  *)

LEMMA ReceiveKeeps ==
  ASSUME Named, Kept, NEW t \in Turns, Receive(t)
  PROVE  Kept'
<1>1. phase[t] = "idle" /\ UNCHANGED <<disk, files, mutex, work, archive>>
  BY DEF Receive, At
<1>2. PICK p \in {"locking", "ended"} : /\ phase' = [phase EXCEPT ![t] = p]
                                        /\ p = "locking" => input'[t] \in Inputs
                                                              /\ input'[t].session \in dirs'
  BY DEF Receive, Goto, Kept, Shaped
<1>3. /\ dirs \subseteq dirs'
      /\ input' = [u \in Turns |-> input'[u]] /\ reply' = [u \in Turns |-> reply'[u]]
      /\ \A u \in Turns \ {t} : input'[u] = input[u] /\ reply'[u] = reply[u]
      /\ reply'[t] \in {reply[t], "error"}
  BY DEF Receive, Kept, Shaped
<1>4. /\ phase' = [u \in Turns |-> phase'[u]] /\ phase'[t] = p
      /\ \A u \in Turns \ {t} : phase'[u] = phase[u]
  BY <1>2 DEF Kept, Shaped
<1>5. \A u \in Turns : reply'[u] = "result" => u # t /\ reply[u] = "result"
  BY <1>1, <1>3 DEF Kept, Remembered
<1>6. \A u \in Turns \ {t} : Home(u)' = Home(u)
  BY <1>3 DEF Home
<1>7. Shaped' /\ Stored'
  BY <1>1, <1>3, <1>4 DEF Kept, Shaped, Stored
<1>8. mutex # t
  BY <1>1 DEF Kept, Held, Holding
<1>9. Held'
  <2>1. \A u \in Turns : /\ phase'[u] \notin {"idle", "ended"} =>
                              input'[u] \in Inputs /\ Home(u)' \in dirs'
                         /\ Holding(u)' => mutex = u
    BY <1>2, <1>3, <1>4, <1>6 DEF Kept, Held, Holding, Home
  <2>2. mutex \in Turns => Holding(mutex)' /\ Home(mutex)' = Home(mutex) /\ phase'[mutex] = phase[mutex]
    <3> SUFFICES ASSUME mutex \in Turns
                 PROVE  Holding(mutex)' /\ Home(mutex)' = Home(mutex) /\ phase'[mutex] = phase[mutex]
      OBVIOUS
    <3>1. mutex' = mutex /\ mutex # t /\ Holding(mutex)
      BY <1>1, <1>8 DEF Kept, Held
    <3>2. phase'[mutex] = phase[mutex] /\ input'[mutex] = input[mutex]
      BY <1>3, <1>4, <3>1
    <3>3. QED BY <3>1, <3>2 DEF Holding, Home
  <2>3. QED BY <1>1, <2>1, <2>2 DEF Kept, Held
<1>10. Remembered'
  BY <1>1, <1>3, <1>4, <1>5, <1>6, <1>8 DEF Kept, Remembered
<1>11. QED BY <1>7, <1>9, <1>10 DEF Kept

LEMMA LockKeeps ==
  ASSUME Named, Kept, NEW t \in Turns, Lock(t)
  PROVE  Kept'
<1>1. /\ phase[t] = "locking" /\ mutex = None /\ mutex' = t
      /\ phase' = [phase EXCEPT ![t] = "receiving"]
      /\ UNCHANGED <<disk, dirs, files, input, reply, archive>>
  BY DEF Lock, At, Goto
<1>2. input[t] \in Inputs /\ Home(t) \in dirs /\ Home(t) \in Sessions
  BY <1>1 DEF Kept, Held, Named, Input, Home
<1>3. IsWork(work') /\ work'.doc = LoadSession(Home(t)) /\ work'.audio = {}
  BY DEF Lock, IsWork
<1>4. Good(work'.doc)
  BY <1>2, <1>3, NewIsGood DEF LoadSession, Kept, Stored
<1>5. /\ phase' = [u \in Turns |-> phase'[u]] /\ phase'[t] = "receiving"
      /\ \A u \in Turns \ {t} : phase'[u] = phase[u]
  BY <1>1 DEF Kept, Shaped
<1>6. \A u \in Turns : Home(u)' = Home(u)
  BY <1>1 DEF Home
<1>7. Shaped' /\ Stored'
  BY <1>1, <1>5 DEF Kept, Shaped, Stored
<1>8. \A u \in Turns : ~Holding(u)
  BY <1>1 DEF Kept, Held, Named
<1>9. Held'
  <2>1. \A u \in Turns : /\ phase'[u] \notin {"idle", "ended"} => input[u] \in Inputs /\ Home(u) \in dirs
                         /\ Holding(u)' => u = t
    BY <1>2, <1>5, <1>8 DEF Kept, Held, Holding
  <2>2. Holding(t)'
    BY <1>5 DEF Holding
  <2>3. archive # None => archive.id \in Sessions /\ Good(archive.doc)
    BY DEF Kept, Held
  <2>4. t # Importer
    BY DEF Named
  <2>5. QED BY <1>1, <1>3, <1>4, <1>5, <1>6, <2>1, <2>2, <2>3, <2>4 DEF Held
<1>10. Remembered'
  <2> SUFFICES ASSUME NEW u \in Turns, reply[u] = "result"
               PROVE  /\ phase'[u] = "ended" /\ input[u] \in Inputs
                      /\ disk[Home(u)] # None /\ InSeq(u, disk[Home(u)].turns)
                      /\ Home(t) = Home(u) => InSeq(u, work'.doc.turns)
    BY <1>1, <1>6 DEF Remembered
  <2>1. /\ phase[u] = "ended" /\ u # t /\ input[u] \in Inputs
        /\ disk[Home(u)] # None /\ InSeq(u, disk[Home(u)].turns)
    BY <1>1 DEF Kept, Remembered
  <2>2. QED BY <1>3, <1>5, <2>1 DEF LoadSession
<1>11. QED BY <1>7, <1>9, <1>10 DEF Kept

LEMMA ExportKeeps ==
  ASSUME Named, Kept, NEW s \in Sessions, Export(s)
  PROVE  Kept'
<1>1. UNCHANGED <<disk, dirs, mutex, work, phase, input, reply>> /\ disk[s] # None
  BY DEF Export
<1>2. archive'.id = s /\ archive'.doc = disk[s]
  BY DEF Export, Packed
<1>3. archive'.id \in Sessions /\ Good(archive'.doc)
  BY <1>1, <1>2 DEF Kept, Stored
<1>4. \A u \in Turns : (Home(u)' = Home(u)) /\ (Holding(u)' <=> Holding(u))
  BY <1>1 DEF Home, Holding
<1>5. Held'
  BY <1>1, <1>3, <1>4 DEF Kept, Held
<1>6. Shaped' /\ Stored'
  BY <1>1 DEF Kept, Shaped, Stored
<1>7. Remembered'
  BY <1>1, <1>4 DEF Kept, Remembered
<1>8. QED BY <1>5, <1>6, <1>7 DEF Kept

LEMMA ImportBeginKeeps == Named /\ Kept /\ ImportBegin => Kept'
<1> SUFFICES ASSUME Named, Kept, ImportBegin PROVE Kept'
  OBVIOUS
<1>1. /\ mutex = None /\ archive # None /\ mutex' = Importer
      /\ UNCHANGED <<disk, dirs, files, phase, input, reply, archive>>
  BY DEF ImportBegin
<1>2. PICK s \in Sessions : /\ IF archive.id \in dirs THEN s \notin dirs ELSE s = archive.id
                            /\ work' = [into |-> s, from |-> archive]
  BY DEF ImportBegin
<1>3. work'.into \in Sessions /\ work'.from.id \in Sessions /\ Good(work'.from.doc)
  BY <1>1, <1>2 DEF Kept, Held
<1>4. \A u \in Turns : Home(u)' = Home(u) /\ ~Holding(u) /\ ~Holding(u)'
  BY <1>1 DEF Kept, Held, Home, Holding, Named
<1>5. Held'
  BY <1>1, <1>3, <1>4 DEF Kept, Held, Named
<1>6. Shaped' /\ Stored'
  BY <1>1 DEF Kept, Shaped, Stored
<1>7. Remembered'
  BY <1>1, <1>4 DEF Kept, Remembered, Named
<1>8. QED BY <1>5, <1>6, <1>7 DEF Kept

\* Renaming the session in the media of a document keeps its conversation.
LEMMA RewrittenIsGood ==
  ASSUME NEW d, Good(d), NEW a \in Sessions, NEW b \in Sessions, NEW n,
         n = Rewritten(d, a, b)
  PROVE  Good(n) /\ n.turns = d.turns
<1> DEFINE messages == [i \in DOMAIN d.messages |-> Moved(d.messages[i], a, b)]
<1>1. /\ IsDoc(n) /\ n.turns = d.turns /\ n.talk = d.talk /\ n.messages = messages
  <2>1. n = [d EXCEPT !.messages = messages]
    BY DEF Rewritten
  <2> HIDE DEF messages
  <2>2. QED BY <2>1 DEF Good, IsDoc
<1>2. d.messages \in Seq(Message) /\ DOMAIN d.messages = 1..Len(d.messages)
  BY DEF Good
<1>3. ASSUME NEW m \in Message
      PROVE  Moved(m, a, b) \in Message /\ Moved(m, a, b).by = m.by
  <2> DEFINE media == {[p EXCEPT !.home = IF p.home = a THEN b ELSE p.home] : p \in m.media}
  <2>1. ASSUME NEW p \in Place
        PROVE  [p EXCEPT !.home = IF p.home = a THEN b ELSE p.home] \in Place
    BY DEF Place
  <2>2. m.media \subseteq Place
    BY DEF Message
  <2>3. media \in SUBSET Place
    BY <2>1, <2>2
  <2>4. Moved(m, a, b) = [m EXCEPT !.media = media]
    BY DEF Moved
  <2> HIDE DEF media
  <2>5. QED BY <2>3, <2>4 DEF Message
<1>4. /\ messages \in Seq(Message) /\ Len(messages) = Len(d.messages)
      /\ \A i \in 1..Len(d.messages) : messages[i].by = d.messages[i].by
  <2>1. \A i \in 1..Len(d.messages) : d.messages[i] \in Message
    BY <1>2
  <2>2. messages = [i \in 1..Len(d.messages) |-> Moved(d.messages[i], a, b)]
    BY <1>2
  <2> HIDE DEF messages
  <2>3. \A i \in 1..Len(d.messages) : messages[i] \in Message /\ messages[i].by = d.messages[i].by
    BY <1>3, <2>1, <2>2
  <2>4. messages \in [1..Len(d.messages) -> Message] /\ Len(d.messages) \in Nat
    BY <1>2, <2>2, <2>3
  <2>5. QED BY <2>3, <2>4
<1> HIDE DEF messages
<1>5. \A i \in 1..Len(d.messages) : messages[i].by = d.messages[i].by
  BY <1>4
<1>6. Paired(messages, d.talk)
  <2>1. Len(d.messages) = 2 * Len(d.talk) /\ Len(d.talk) \in Nat /\ DOMAIN d.talk = 1..Len(d.talk)
    BY DEF Good, Paired
  <2>2. ASSUME NEW i \in DOMAIN d.talk
        PROVE  messages[2 * i - 1].by = d.talk[i] /\ messages[2 * i].by = d.talk[i]
    <3>1. 2 * i - 1 \in 1..Len(d.messages) /\ 2 * i \in 1..Len(d.messages)
      BY <2>1
    <3>2. d.messages[2 * i - 1].by = d.talk[i] /\ d.messages[2 * i].by = d.talk[i]
      BY DEF Good, Paired
    <3>3. QED BY <3>1, <3>2, <1>5
  <2>3. QED BY <1>4, <2>1, <2>2 DEF Paired
<1>7. QED BY <1>1, <1>4, <1>6 DEF Good

\* An import writes a session that was not there.
LEMMA ImportEndKeeps == Named /\ Kept /\ ImportEnd => Kept'
<1> SUFFICES ASSUME Named, Kept, ImportEnd PROVE Kept'
  OBVIOUS
<1> DEFINE s == work.into
           doc == Rewritten(work.from.doc, work.from.id, s)
           new == [doc EXCEPT !.state = "ready", !.active = None]
<1>1. mutex = Importer /\ mutex' = None /\ UNCHANGED <<phase, input, reply, archive>>
  BY DEF ImportEnd
<1>2. s \in Sessions /\ work.from.id \in Sessions /\ Good(work.from.doc)
  BY <1>1 DEF Kept, Held
<1>3. Good(doc)
  <2>1. \A n : n = doc => Good(n)
    BY <1>2, RewrittenIsGood
  <2>2. QED BY <2>1
<1> HIDE DEF doc
<1>4. Good(new)
  <2>1. ASSUME NEW d, Good(d), NEW n, n = [d EXCEPT !.state = "ready", !.active = None]
        PROVE  Good(n)
    <3>1. /\ IsDoc(n) /\ n.turns = d.turns /\ n.talk = d.talk /\ n.messages = d.messages
      BY <2>1 DEF Good, IsDoc
    <3>2. QED BY <2>1, <3>1 DEF Good
  <2>2. QED BY <1>3, <2>1, Zenon
<1>5. \/ UNCHANGED <<disk, dirs>>
      \/ s \notin dirs /\ dirs' = dirs \cup {s} /\ disk' = [disk EXCEPT ![s] = new]
  BY DEF ImportEnd, Written, doc
<1> HIDE DEF new, s
<1>6. /\ disk' = [r \in Sessions |-> disk'[r]] /\ dirs \subseteq dirs'
      /\ \A r \in Sessions : \/ disk'[r] = disk[r]
                             \/ disk[r] = None /\ disk'[r] = new /\ r \in dirs'
  BY <1>2, <1>5 DEF Kept, Shaped, Stored
<1>7. Shaped' /\ Stored'
  BY <1>1, <1>4, <1>6 DEF Kept, Shaped, Stored
<1>8. \A u \in Turns : Home(u)' = Home(u) /\ ~Holding(u) /\ ~Holding(u)'
  BY <1>1 DEF Kept, Held, Home, Holding, Named
<1>9. Held'
  BY <1>1, <1>6, <1>8 DEF Kept, Held, Named
<1>10. Remembered'
  <2> SUFFICES ASSUME NEW u \in Turns, reply[u] = "result"
               PROVE  /\ phase[u] = "ended" /\ input[u] \in Inputs
                      /\ disk'[Home(u)] # None /\ InSeq(u, disk'[Home(u)].turns)
    BY <1>1, <1>8 DEF Remembered, Named
  <2>1. /\ phase[u] = "ended" /\ input[u] \in Inputs
        /\ disk[Home(u)] # None /\ InSeq(u, disk[Home(u)].turns)
    BY DEF Kept, Remembered
  <2>2. Home(u) \in Sessions
    BY <2>1 DEF Named, Input, Home
  <2>3. QED BY <1>6, <2>1, <2>2
<1>11. QED BY <1>7, <1>9, <1>10 DEF Kept

LEMMA CrashKeeps == Named /\ Kept /\ Crash => Kept'
<1> SUFFICES ASSUME Named, Kept, Crash PROVE Kept'
  OBVIOUS
<1>1. mutex' = None /\ UNCHANGED <<disk, dirs, files, input, reply, archive>>
  BY DEF Crash
<1>2. /\ phase' = [t \in Turns |-> phase'[t]]
      /\ \A t \in Turns : phase'[t] \in {"idle", "ended"} /\ (phase[t] = "ended" => phase'[t] = "ended")
  BY DEF Crash, At
<1>3. \A u \in Turns : Home(u)' = Home(u) /\ ~Holding(u)'
  BY <1>1, <1>2 DEF Home, Holding
<1>4. Shaped' /\ Stored'
  BY <1>1, <1>2 DEF Kept, Shaped, Stored
<1>5. Held'
  BY <1>1, <1>2, <1>3 DEF Kept, Held, Named
<1>6. Remembered'
  BY <1>1, <1>2, <1>3 DEF Kept, Remembered, Named
<1>7. QED BY <1>4, <1>5, <1>6 DEF Kept

LEMMA ForeignIsGood ==
  ASSUME Named, NEW s \in Sessions
  PROVE  Foreign(s).id = s /\ Good(Foreign(s).doc)
<1> DEFINE d == Foreign(s).doc
           media == Located(s, {Upload(0, n) : n \in Names})
           u == [by |-> Guest, role |-> "user", media |-> media]
           a == [by |-> Guest, role |-> "assistant", media |-> {}]
<1>1. /\ IsDoc(d) /\ d.turns = <<Guest>> /\ d.talk = <<Guest>> /\ d.messages = <<u, a>>
  BY DEF Foreign, NewSession, IsDoc
<1>2. Guest \in Contents
  BY DEF Contents
<1>3. media \subseteq Place
  BY LocatedPlaces DEF Upload, Path
<1> HIDE DEF media
<1>4. u \in Message /\ a \in Message /\ u.by = Guest /\ a.by = Guest
  BY <1>2, <1>3 DEF Message
<1> HIDE DEF u, a
<1>5. d.turns \in Seq(Contents) /\ d.talk \in Seq(Contents) /\ d.messages \in Seq(Message)
  BY <1>1, <1>2, <1>4
<1>6. Paired(<<u, a>>, <<Guest>>)
  BY <1>4 DEF Paired
<1>7. \A i \in DOMAIN <<Guest>> : InSeq(<<Guest>>[i], <<Guest>>)
  BY DEF InSeq
<1>8. Good(d)
  BY <1>1, <1>5, <1>6, <1>7 DEF Good
<1>9. QED BY <1>8 DEF Foreign

LEMMA KeptInit == Named /\ SessionInit => Kept
<1> SUFFICES ASSUME Named, SessionInit PROVE Kept
  OBVIOUS
<1>1. Shaped /\ Stored
  BY DEF SessionInit, Shaped, Stored
<1>2. archive # None => archive.id \in Sessions /\ Good(archive.doc)
  BY ForeignIsGood DEF SessionInit
<1>3. Held
  BY <1>2 DEF SessionInit, Held, Holding, Named
<1>4. Remembered
  BY DEF SessionInit, Remembered
<1>5. QED BY <1>1, <1>3, <1>4 DEF Kept

LEMMA NextKeeps == Named /\ Kept /\ [SessionNext]_sessionVars => Kept'
<1> SUFFICES ASSUME Named, Kept, [SessionNext]_sessionVars PROVE Kept'
  OBVIOUS
<1>1. CASE UNCHANGED sessionVars
  <2>1. UNCHANGED <<disk, dirs, mutex, work, phase, input, reply, archive>>
    BY <1>1 DEF sessionVars
  <2>2. \A u \in Turns : Home(u)' = Home(u) /\ (Holding(u)' <=> Holding(u))
    BY <2>1 DEF Home, Holding
  <2>3. Shaped' /\ Stored'
    BY <2>1 DEF Kept, Shaped, Stored
  <2>4. Held'
    BY <2>1 DEF Kept, Held, Home, Holding
  <2>5. Remembered'
    BY <2>1 DEF Kept, Remembered, Home
  <2>6. QED BY <2>3, <2>4, <2>5 DEF Kept
<1>2. ASSUME NEW t \in Turns, Receive(t) \/ Lock(t) \/ TurnStep(t) PROVE Kept'
  BY <1>2, ReceiveKeeps, LockKeeps, TransitionsKeep, ConcludeKeeps, StaysKeep, LookKeeps,
     SynthesizeKeeps, AppendKeeps, StoreKeeps, LeavesKeep, Zenon DEF TurnStep
<1>3. ASSUME NEW s \in Sessions, Export(s) PROVE Kept'
  BY <1>3, ExportKeeps
<1>4. CASE ImportBegin \/ ImportEnd \/ Crash
  BY <1>4, ImportBeginKeeps, ImportEndKeeps, CrashKeeps
<1>5. QED BY <1>1, <1>2, <1>3, <1>4, Zenon DEF SessionNext

\* The session mutex, the whole-file rename of write_json_atomic and the
\* handler at the end of a turn: a turn whose result was returned is in its
\* session for ever, and the stored conversation is never torn.
THEOREM HistoryIsKept ==
  ASSUME Named PROVE SessionSpec => []HistoryKept
<1>1. Kept => HistoryKept
  <2> SUFFICES ASSUME Kept PROVE HistoryKept
    OBVIOUS
  <2>1. \A t \in Turns : reply[t] = "result" => InSeq(t, disk[Home(t)].turns)
    BY DEF Kept, Remembered
  <2>2. \A d \in Docs : Good(d)
    BY DEF Docs, Kept, Stored
  <2>3. QED BY <2>1, <2>2 DEF HistoryKept, Good, Paired
<1>2. QED BY KeptInit, NextKeeps, <1>1, PTL DEF SessionSpec

-----------------------------------------------------------------------------
(* The media of stored messages                                            *)

\* A turn has not saved what was sent, or may not have saved all of it.
Gathering == {"receiving", "saving", "failing"}

\* Its messages may have joined the session.
Past == {"storing", "stored", "failing", "ended"}

\* What every turn that was sent something was sent, and the turns that a
\* message may be by.
Posts == [u \in Received |-> [home |-> Home(u), media |-> UserMedia(u)]]
Spoken == {Guest} \cup {u \in Received : phase[u] \in Past}
World == [posts |-> Posts, spoken |-> Spoken]

\* A later moment w: more was sent and said, and who had spoken is sent nothing.
Later(v, w) ==
  /\ DOMAIN v.posts \subseteq DOMAIN w.posts
  /\ \A u \in DOMAIN v.posts : w.posts[u] = v.posts[u]
  /\ v.spoken \subseteq w.spoken
  /\ \A u \in v.spoken : u \in DOMAIN w.posts => u \in DOMAIN v.posts

\* Here and Keeps, of what was sent until w.
From(u, s, w) == u \in DOMAIN w.posts /\ w.posts[u].home = s
KeepsAt(d, i, p, u, w) ==
  \/ u = d.messages[i].by
  \/ /\ \A j \in 1..i : d.messages[j].by # u
     /\ \/ u \in DOMAIN w.posts /\ p \in w.posts[u].media
        \/ p.dir = "reply" /\ ~InSeq(d.messages[i].by, d.turns)

\* A reply has the number of turns recorded before its own.
AnswerNumbered(d, i, p) ==
  /\ p.index <= Len(d.turns)
  /\ InSeq(d.messages[i].by, d.turns) => p.index < Len(d.turns)

\* What message i of d names is in s, and of uploads and, if replies says so, of
\* replies spoken there, its turn's file is in f, up to Keeps.
Placed(d, i, s, f, replies, w) ==
  \A m \in d.messages[i].media :
    /\ m.home = s /\ m.file.dir \in {"uploads", "reply"}
    /\ m.file.dir = "uploads" \/ (replies /\ From(d.messages[i].by, s, w)) =>
         m.file \in DOMAIN f /\ KeepsAt(d, i, m.file, f[m.file], w)
    /\ m.file.dir = "reply" /\ replies /\ From(d.messages[i].by, s, w) => AnswerNumbered(d, i, m.file)

Resolve(d, s, f, replies, w) ==
  \A i \in DOMAIN d.messages : d.messages[i].by \in w.spoken /\ Placed(d, i, s, f, replies, w)

\* The files ps are there, and they are t's.
Has(f, ps, t) == \A p \in ps : p \in DOMAIN f /\ f[p] = t

\* What the messages of t name is t's.
OfTurn(d, f, t) ==
  \A i \in DOMAIN d.messages : d.messages[i].by = t => \A m \in d.messages[i].media : f[m.file] = t

\* What the turn t that holds the mutex has in memory.
Carried(t) ==
  /\ Resolve(work.doc, Home(t), files[Home(t)], TRUE, World)
  /\ disk[Home(t)] # None => disk[Home(t)].turns = work.doc.turns
  /\ phase[t] \notin Gathering => Has(files[Home(t)], UserMedia(t), t)
  /\ phase[t] \notin Past => /\ work.audio \subseteq {Reply(Len(work.doc.turns))}
                             /\ Has(files[Home(t)], work.audio, t)
  /\ phase[t] = "storing" => OfTurn(work.doc, files[Home(t)], t)

\* The inductive invariant, beside Kept: every copy of a session resolves, the
\* one in the memory of a turn, an archive and an import included, and what a
\* turn is about to name has been saved.
Sound ==
  /\ files = [s \in Sessions |-> files[s]]
  /\ \A t \in Turns : /\ phase[t] = "idle" => input[t] = None
                      /\ t \in Received => input[t] \in Inputs /\ Home(t) \in dirs
  /\ \A s \in Sessions : disk[s] # None => Resolve(disk[s], s, files[s], TRUE, World)
  /\ mutex \in Turns => Carried(mutex)
  /\ mutex = Importer => Resolve(work.from.doc, work.from.id, work.from.files, FALSE, World)
  /\ archive # None => Resolve(archive.doc, archive.id, archive.files, FALSE, World)

LEMMA ResolveLater ==
  ASSUME NEW d, NEW s, NEW f, NEW replies, NEW v, NEW w, Resolve(d, s, f, replies, v), Later(v, w)
  PROVE  Resolve(d, s, f, replies, w)
<1> SUFFICES ASSUME NEW i \in DOMAIN d.messages
             PROVE  d.messages[i].by \in w.spoken /\ Placed(d, i, s, f, replies, w)
  BY DEF Resolve
<1>1. d.messages[i].by \in v.spoken /\ Placed(d, i, s, f, replies, v)
  BY DEF Resolve
<1>2. d.messages[i].by \in w.spoken
      /\ (From(d.messages[i].by, s, w) => From(d.messages[i].by, s, v))
  BY <1>1 DEF Later, From
<1>3. ASSUME NEW p, NEW u, KeepsAt(d, i, p, u, v) PROVE KeepsAt(d, i, p, u, w)
  BY <1>3 DEF KeepsAt, Later
<1> QED BY <1>1, <1>2, <1>3 DEF Placed

\* Only messages and turns matter.
LEMMA ResolveSame ==
  ASSUME NEW d, NEW e, NEW s, NEW f, NEW replies, NEW w, Resolve(d, s, f, replies, w),
         e.messages = d.messages, e.turns = d.turns
  PROVE  Resolve(e, s, f, replies, w)
BY DEF Resolve, Placed, KeepsAt, AnswerNumbered

\* A turn that no message is by yet writes what it was sent, pages, or a reply
\* with the next number.
LEMMA ResolveWritten ==
  ASSUME NEW d, NEW s, NEW f, NEW w, NEW t, NEW ps, Resolve(d, s, f, TRUE, w),
         d.messages \in Seq(Message), d.turns \in Seq(Contents), t \in DOMAIN w.posts, t \notin w.spoken,
         \A p \in ps : \/ p \in w.posts[t].media
                       \/ p.dir = "rendered"
                       \/ p.dir = "reply" /\ p.index = Len(d.turns)
  PROVE  Resolve(d, s, Put(f, ps, t), TRUE, w)
<1> SUFFICES ASSUME NEW i \in DOMAIN d.messages
             PROVE  d.messages[i].by \in w.spoken /\ Placed(d, i, s, Put(f, ps, t), TRUE, w)
  BY DEF Resolve
<1>1. d.messages[i].by \in w.spoken /\ Placed(d, i, s, f, TRUE, w)
  BY DEF Resolve
<1>2. SUFFICES ASSUME NEW m \in d.messages[i].media,
                      m.file.dir = "uploads" \/ From(d.messages[i].by, s, w)
               PROVE  /\ m.file \in DOMAIN Put(f, ps, t)
                      /\ KeepsAt(d, i, m.file, Put(f, ps, t)[m.file], w)
  BY <1>1 DEF Placed
<1>3. /\ m.file \in DOMAIN f /\ KeepsAt(d, i, m.file, f[m.file], w)
      /\ m.file.dir \in {"uploads", "reply"}
      /\ m.file.dir = "reply" => AnswerNumbered(d, i, m.file)
  BY <1>1, <1>2 DEF Placed
<1>4. m.file \in DOMAIN Put(f, ps, t)
  BY <1>3 DEF Put
<1>5. CASE m.file \notin ps
  BY <1>3, <1>5 DEF Put
<1>6. CASE m.file \in ps
  <2>1. Put(f, ps, t)[m.file] = t
    BY <1>6 DEF Put
  <2>2. \A j \in 1..i : d.messages[j].by # t
    <3>1. \A j \in DOMAIN d.messages : d.messages[j].by # t
      BY DEF Resolve
    <3>2. 1..i \subseteq DOMAIN d.messages
      OBVIOUS
    <3> QED BY <3>1, <3>2
  <2>3. CASE m.file \in w.posts[t].media
    BY <1>4, <2>1, <2>2, <2>3 DEF KeepsAt
  <2>4. CASE m.file.dir = "reply" /\ m.file.index = Len(d.turns)
    <3>1. Len(d.turns) \in Nat
      OBVIOUS
    <3>2. ~InSeq(d.messages[i].by, d.turns)
      BY <1>3, <2>4, <3>1 DEF AnswerNumbered
    <3> QED BY <1>4, <2>1, <2>2, <2>4, <3>2 DEF KeepsAt
  <2> QED BY <1>3, <1>6, <2>3, <2>4
<1> QED BY <1>4, <1>5, <1>6

\* A turn that no message was by adds its two, with files that are its own.
LEMMA ResolveAppended ==
  ASSUME NEW d, NEW e, NEW s, NEW f, NEW w, NEW t, NEW u, NEW a,
         Resolve(d, s, f, TRUE, w), t \in w.spoken,
         d.messages \in Seq(Message), d.turns \in Seq(Contents), ~InSeq(t, d.turns),
         u \in Message, a \in Message, u.by = t, a.by = t,
         \A m \in u.media \cup a.media :
           /\ m.home = s /\ m.file \in DOMAIN f /\ f[m.file] = t
           /\ m.file.dir = "uploads" \/ m.file = Reply(Len(d.turns)),
         e.messages = d.messages \o <<u, a>>, e.turns = d.turns
  PROVE  Resolve(e, s, f, TRUE, w)
<1>1. ASSUME NEW q \in Seq(Message), NEW i \in DOMAIN (q \o <<u, a>>)
      PROVE  \/ /\ i \in DOMAIN q /\ (q \o <<u, a>>)[i] = q[i]
                /\ \A j \in 1..i : (q \o <<u, a>>)[j] = q[j]
             \/ (q \o <<u, a>>)[i] \in {u, a}
  <2>1. Len(q) \in Nat /\ DOMAIN q = 1..Len(q) /\ DOMAIN (q \o <<u, a>>) = 1..(Len(q) + 2)
    OBVIOUS
  <2>2. i \in 1..Len(q) \/ i = Len(q) + 1 \/ i = Len(q) + 2
    BY <2>1
  <2>3. \A j \in 1..Len(q) : (q \o <<u, a>>)[j] = q[j]
    OBVIOUS
  <2> QED BY <2>1, <2>2, <2>3
<1> SUFFICES ASSUME NEW i \in DOMAIN e.messages
             PROVE  e.messages[i].by \in w.spoken /\ Placed(e, i, s, f, TRUE, w)
  BY DEF Resolve
<1>2. CASE e.messages[i] \in {u, a}
  <2>1. e.messages[i].by = t /\ e.messages[i].media \subseteq u.media \cup a.media
    BY <1>2
  <2>2. Len(d.turns) \in Nat
    OBVIOUS
  <2>3. ASSUME NEW m \in e.messages[i].media
        PROVE  /\ m.home = s /\ m.file.dir \in {"uploads", "reply"}
               /\ m.file \in DOMAIN f /\ f[m.file] = t
               /\ m.file.dir = "reply" => AnswerNumbered(e, i, m.file)
    <3>1. /\ m.home = s /\ m.file \in DOMAIN f /\ f[m.file] = t
          /\ m.file.dir = "uploads" \/ m.file = Reply(Len(d.turns))
      BY <2>1
    <3>2. Reply(Len(d.turns)).dir = "reply" /\ Reply(Len(d.turns)).index = Len(d.turns)
      BY DEF Reply
    <3>3. m.file.dir = "reply" => m.file.index = Len(d.turns)
      BY <3>1, <3>2
    <3>4. ~InSeq(e.messages[i].by, e.turns) /\ Len(e.turns) = Len(d.turns)
      BY <2>1
    <3> QED BY <2>2, <3>1, <3>2, <3>3, <3>4 DEF AnswerNumbered
  <2> QED BY <2>1, <2>3 DEF Placed, KeepsAt
<1>3. CASE /\ i \in DOMAIN d.messages /\ e.messages[i] = d.messages[i]
           /\ \A j \in 1..i : e.messages[j] = d.messages[j]
  <2>1. d.messages[i].by \in w.spoken /\ Placed(d, i, s, f, TRUE, w)
    BY <1>3 DEF Resolve
  <2> QED BY <1>3, <2>1 DEF Placed, KeepsAt, AnswerNumbered
<1> QED BY <1>1, <1>2, <1>3

\* A turn whose messages name files that are its own is recorded.
LEMMA ResolveStored ==
  ASSUME NEW d, NEW e, NEW s, NEW f, NEW w, NEW t, Resolve(d, s, f, TRUE, w),
         d.messages \in Seq(Message), d.turns \in Seq(Contents), t \in Contents,
         OfTurn(d, f, t), e.messages = d.messages, e.turns = d.turns \o <<t>>
  PROVE  Resolve(e, s, f, TRUE, w)
<1>1. Len(d.turns) \in Nat /\ Len(e.turns) = Len(d.turns) + 1
  OBVIOUS
<1>2. \A u : InSeq(u, e.turns) => InSeq(u, d.turns) \/ u = t
  BY DEF InSeq
<1> SUFFICES ASSUME NEW i \in DOMAIN d.messages
             PROVE  d.messages[i].by \in w.spoken /\ Placed(e, i, s, f, TRUE, w)
  BY DEF Resolve
<1>3. d.messages[i].by \in w.spoken /\ Placed(d, i, s, f, TRUE, w)
  BY DEF Resolve
<1>4. ASSUME NEW p, p.index \in Nat, AnswerNumbered(d, i, p) PROVE AnswerNumbered(e, i, p)
  BY <1>1, <1>4 DEF AnswerNumbered
<1>5. ASSUME NEW m \in d.messages[i].media, KeepsAt(d, i, m.file, f[m.file], w)
      PROVE  KeepsAt(e, i, m.file, f[m.file], w)
  BY <1>2, <1>5 DEF KeepsAt, OfTurn
<1>6. ASSUME NEW m \in d.messages[i].media PROVE m.file.index \in Nat
  <2>1. d.messages[i] \in Message
    OBVIOUS
  <2> QED BY <2>1 DEF Message, Place, Path
<1>7. e.messages[i] = d.messages[i]
  OBVIOUS
<1> QED BY <1>3, <1>4, <1>5, <1>6, <1>7 DEF Placed

\* What leaves the session keeps its uploads.
LEMMA ResolveKept ==
  ASSUME NEW d, NEW s, NEW f, NEW g, NEW w, Resolve(d, s, f, TRUE, w),
         \A p \in DOMAIN f : p.dir = "uploads" => p \in DOMAIN g /\ g[p] = f[p]
  PROVE  Resolve(d, s, g, FALSE, w)
BY DEF Resolve, Placed

-----------------------------------------------------------------------------
(* Steps and media                                                          *)

\* While nobody is sent anything and phases go on, moments follow each other.
LEMMA WorldGoesOn ==
  ASSUME Named, UNCHANGED input, \A u \in Turns : phase[u] \in Past => phase'[u] \in Past
  PROVE  /\ Later(World, World') /\ Posts' = Posts
         /\ \A u \in Turns : Home(u)' = Home(u) /\ UserMedia(u)' = UserMedia(u)
<1>1. \A u \in Turns : Home(u)' = Home(u) /\ UserMedia(u)' = UserMedia(u)
  BY DEF Home, UserMedia, VoicePath, AttachmentPath, Attached
<1>2. Received' = Received /\ Received \subseteq Turns
  BY DEF Received
<1>3. Posts' = Posts /\ DOMAIN Posts = Received
  BY <1>1, <1>2 DEF Posts
<1>4. Spoken \subseteq Spoken' /\ \A u \in Spoken : u \in Received \/ u \notin Turns
  BY <1>2 DEF Spoken, Named
<1>5. World.posts = Posts /\ World.spoken = Spoken /\ World'.posts = Posts' /\ World'.spoken = Spoken'
  BY DEF World
<1> QED BY <1>1, <1>2, <1>3, <1>4, <1>5 DEF Later

\* What the world says of the turn that holds the mutex.
LEMMA HolderInWorld ==
  ASSUME Named, Kept, NEW t \in Turns, Holding(t)
  PROVE  /\ t \in DOMAIN World.posts /\ World.posts[t].media = UserMedia(t)
         /\ phase[t] \notin Past => t \notin World.spoken
         /\ phase[t] \in Past => t \in World.spoken
<1>1. input[t] \in Inputs
  BY DEF Kept, Held, Holding
<1>2. t \in Received /\ t # Guest
  BY <1>1 DEF Received, Named
<1> QED BY <1>2 DEF World, Posts, Spoken

\* The holder goes on: what it has in memory, and may have written, is sound.
LEMMA SoundGoesOn ==
  ASSUME Named, Kept, Sound, NEW t \in Turns, Holding(t), NEW p,
         p \notin {"idle", "locking"}, phase[t] \in Past => p \in Past,
         phase' = [phase EXCEPT ![t] = p], UNCHANGED <<dirs, mutex, input, archive>>,
         NEW fs, files' = [files EXCEPT ![Home(t)] = fs],
         Resolve(work'.doc, Home(t), fs, TRUE, World'),
         \/ disk' = [disk EXCEPT ![Home(t)] = work'.doc]
         \/ /\ disk' = disk /\ work'.doc.turns = work.doc.turns
            /\ disk[Home(t)] # None => Resolve(disk[Home(t)], Home(t), fs, TRUE, World'),
         p \notin Gathering => Has(fs, UserMedia(t), t),
         p \notin Past => /\ work'.audio \subseteq {Reply(Len(work'.doc.turns))}
                          /\ Has(fs, work'.audio, t),
         p = "storing" => OfTurn(work'.doc, fs, t)
  PROVE  Sound'
<1>1. mutex = t /\ Home(t) \in Sessions /\ mutex # Importer
  BY HolderRemembers DEF Named
<1>2. phase'[t] = p /\ \A u \in Turns : u # t => phase'[u] = phase[u]
  BY <1>1, HolderRemembers
<1>3. /\ Later(World, World')
      /\ \A u \in Turns : Home(u)' = Home(u) /\ UserMedia(u)' = UserMedia(u)
  BY <1>2, WorldGoesOn
<1>4. /\ files' = [s \in Sessions |-> files'[s]] /\ files'[Home(t)] = fs
      /\ \A s \in Sessions : s # Home(t) => files'[s] = files[s]
  BY <1>1 DEF Sound
<1>5. /\ \A s \in Sessions : s # Home(t) => disk'[s] = disk[s]
      /\ \/ disk'[Home(t)] = work'.doc
         \/ /\ disk'[Home(t)] = disk[Home(t)] /\ work'.doc.turns = work.doc.turns
            /\ disk[Home(t)] # None => Resolve(disk[Home(t)], Home(t), fs, TRUE, World')
  BY <1>1 DEF Kept, Shaped
<1>6. \A s \in Sessions : disk'[s] # None => Resolve(disk'[s], s, files'[s], TRUE, World')
  <2> SUFFICES ASSUME NEW s \in Sessions, disk'[s] # None
               PROVE  Resolve(disk'[s], s, files'[s], TRUE, World')
    OBVIOUS
  <2>1. CASE s # Home(t)
    <3>1. Resolve(disk[s], s, files[s], TRUE, World)
      BY <1>5, <2>1 DEF Sound
    <3> QED BY <1>3, <1>4, <1>5, <2>1, <3>1, ResolveLater
  <2> QED BY <1>4, <1>5, <2>1
<1>7. Carried(t)'
  <2>1. disk'[Home(t)] # None => disk'[Home(t)].turns = work'.doc.turns
    BY <1>1, <1>5 DEF Sound, Carried
  <2>2. Home(t)' = Home(t) /\ UserMedia(t)' = UserMedia(t)
    BY <1>3
  <2>3. Resolve(work'.doc, Home(t)', files'[Home(t)'], TRUE, World')
    BY <1>4, <2>2
  <2>4. phase'[t] \notin Gathering => Has(files'[Home(t)'], UserMedia(t)', t)
    BY <1>2, <1>4, <2>2
  <2>5. phase'[t] \notin Past => /\ work'.audio \subseteq {Reply(Len(work'.doc.turns))}
                                 /\ Has(files'[Home(t)'], work'.audio, t)
    BY <1>2, <1>4, <2>2
  <2>6. phase'[t] = "storing" => OfTurn(work'.doc, files'[Home(t)'], t)
    BY <1>2, <1>4, <2>2
  <2> QED BY <2>1, <2>2, <2>3, <2>4, <2>5, <2>6 DEF Carried
<1>8. archive # None => Resolve(archive.doc, archive.id, archive.files, FALSE, World')
  BY <1>3, ResolveLater DEF Sound
<1>9. \A u \in Turns : /\ phase'[u] = "idle" => input[u] = None
                       /\ u \in Received' => input[u] \in Inputs /\ Home(u)' \in dirs
  BY <1>2, <1>3 DEF Sound, Received
<1> QED BY <1>1, <1>4, <1>6, <1>7, <1>8, <1>9 DEF Sound

\* A step that changes neither files nor messages.
LEMMA SoundStays ==
  ASSUME Named, Kept, Sound, NEW t \in Turns, Holding(t), NEW p,
         p \notin {"idle", "locking", "storing"}, phase[t] \in Past => p \in Past,
         phase' = [phase EXCEPT ![t] = p], UNCHANGED <<files, dirs, mutex, input, archive>>,
         work'.doc.messages = work.doc.messages, work'.doc.turns = work.doc.turns,
         work'.audio = work.audio, p \notin Gathering => phase[t] \notin Gathering,
         disk' = disk \/ disk' = [disk EXCEPT ![Home(t)] = work'.doc]
  PROVE  Sound'
<1>1. mutex = t /\ Home(t) \in Sessions /\ phase = [u \in Turns |-> phase[u]]
  BY HolderRemembers
<1>2. files' = [files EXCEPT ![Home(t)] = files[Home(t)]]
  BY <1>1 DEF Sound
<1>3. Carried(t)
  BY <1>1 DEF Sound
<1>4. Later(World, World')
  <2>1. \A u \in Turns : phase[u] \in Past => phase'[u] \in Past
    BY <1>1
  <2> QED BY <2>1, WorldGoesOn
<1>5. Resolve(work'.doc, Home(t), files[Home(t)], TRUE, World')
  BY <1>3, <1>4, ResolveSame, ResolveLater DEF Carried
<1>6. disk[Home(t)] # None => Resolve(disk[Home(t)], Home(t), files[Home(t)], TRUE, World')
  BY <1>1, <1>4, ResolveLater DEF Sound
<1>7. /\ p \notin Gathering => Has(files[Home(t)], UserMedia(t), t)
      /\ p \notin Past => /\ work'.audio \subseteq {Reply(Len(work'.doc.turns))}
                          /\ Has(files[Home(t)], work'.audio, t)
  BY <1>3 DEF Carried
<1> QED BY <1>2, <1>5, <1>6, <1>7, SoundGoesOn

LEMMA TransitionSound ==
  ASSUME Named, Kept, Sound, NEW t \in Turns, Holding(t), NEW state, NEW next,
         Transition(t, state, next), UNCHANGED <<files, dirs, mutex, input, archive>>,
         next \notin {"idle", "locking", "storing"}, phase[t] \notin Past,
         next \notin Gathering => phase[t] \notin Gathering
  PROVE  Sound'
<1> DEFINE doc == [work.doc EXCEPT !.state = state, !.active = t]
<1>1. IsWork(work) /\ Good(work.doc)
  BY HolderRemembers
<1>2. doc.messages = work.doc.messages /\ doc.turns = work.doc.turns
  BY <1>1 DEF Good, IsDoc
<1>3. PICK p : /\ p = next \/ p = "failing"
               /\ phase' = [phase EXCEPT ![t] = p]
  BY DEF Transition, Goto
<1>4. work' = [work EXCEPT !.doc = doc] /\ disk' = [disk EXCEPT ![Home(t)] = doc]
  BY DEF Transition, Written
<1> HIDE DEF doc
<1>5. work'.doc = doc /\ work'.audio = work.audio
  BY <1>1, <1>4 DEF IsWork
<1>6. p \notin {"idle", "locking", "storing"} /\ (p \notin Gathering => phase[t] \notin Gathering)
  BY <1>3 DEF Gathering
<1> QED BY <1>2, <1>3, <1>4, <1>5, <1>6, SoundStays

LEMMA TransitionsSound ==
  ASSUME Named, Kept, Sound, NEW t \in Turns,
         \/ ReceiveInput(t) \/ Hear(t) \/ Prepare(t) \/ Plan(t) \/ StreamAnswer(t)
         \/ AskTool(t) \/ Speak(t)
  PROVE  Sound'
<1>1. CASE ReceiveInput(t)
  BY <1>1, TransitionSound DEF ReceiveInput, At, Holding, Gathering, Past
<1>2. CASE Hear(t)
  BY <1>2, TransitionSound DEF Hear, At, Holding, Gathering, Past
<1>3. CASE Prepare(t)
  BY <1>3, TransitionSound DEF Prepare, At, Holding, Gathering, Past
<1>4. CASE Plan(t)
  BY <1>4, TransitionSound DEF Plan, At, Holding, Gathering, Past
<1>5. CASE StreamAnswer(t)
  BY <1>5, TransitionSound DEF StreamAnswer, At, Holding, Gathering, Past
<1>6. CASE AskTool(t)
  BY <1>6, TransitionSound DEF AskTool, At, Holding, Gathering, Past
<1>7. CASE Speak(t)
  BY <1>7, TransitionSound DEF Speak, At, Holding, Gathering, Past
<1>8. QED BY <1>1, <1>2, <1>3, <1>4, <1>5, <1>6, <1>7

LEMMA QuietStepsSound ==
  ASSUME Named, Kept, Sound, NEW t \in Turns,
         Transcribe(t) \/ StepLimit(t) \/ Answer(t) \/ Throw(t)
  PROVE  Sound'
<1>1. Holding(t)
  BY DEF Transcribe, StepLimit, Answer, Throw, Throwing, At, Holding
<1>2. UNCHANGED <<disk, dirs, files, mutex, work, input, archive>>
  BY DEF Transcribe, StepLimit, Answer, Throw
<1>3. PICK p : /\ phase' = [phase EXCEPT ![t] = p]
               /\ p \notin {"idle", "locking", "storing"} /\ phase[t] \notin Past
               /\ p \notin Gathering => phase[t] \notin Gathering
  BY DEF Transcribe, StepLimit, Answer, Throw, Throwing, At, Goto, Gathering, Past
<1>4. QED BY <1>1, <1>2, <1>3, SoundStays

LEMMA ConcludeSound ==
  ASSUME Named, Kept, Sound, NEW t \in Turns, Conclude(t)
  PROVE  Sound'
<1>1. /\ Holding(t) /\ phase[t] \notin Gathering /\ phase[t] \notin Past
      /\ UNCHANGED <<files, dirs, mutex, input, archive>>
  BY DEF Conclude, At, Holding, Gathering, Past
<1>2. PICK next : /\ next \in {"persisting", "speaking"}
                  /\ \/ Goto(t, next) /\ UNCHANGED <<disk, work>>
                     \/ Transition(t, "llm_final", next)
  BY DEF Conclude
<1>3. QED BY <1>1, <1>2, SoundStays, TransitionSound DEF Goto

LEMMA StoreSound ==
  ASSUME Named, Kept, Sound, NEW t \in Turns, Store(t)
  PROVE  Sound'
<1> DEFINE doc == [work.doc EXCEPT !.turns = @ \o <<t>>, !.state = "ready", !.active = None]
<1>1. /\ Holding(t) /\ phase[t] = "storing" /\ phase[t] \in Past /\ phase[t] \notin Gathering
      /\ UNCHANGED <<files, dirs, mutex, input, archive>>
  BY DEF Store, At, Holding, Gathering, Past
<1>2. /\ mutex = t /\ Home(t) \in Sessions /\ IsWork(work) /\ Good(work.doc)
      /\ phase = [u \in Turns |-> phase[u]]
  BY <1>1, HolderRemembers
<1>3. doc.messages = work.doc.messages /\ doc.turns = work.doc.turns \o <<t>>
  BY <1>2 DEF Good, IsDoc
<1>4. work' = [work EXCEPT !.doc = doc] /\ disk' = [disk EXCEPT ![Home(t)] = doc]
  BY DEF Store, Written
<1>5. PICK p : p \in {"stored", "failing"} /\ phase' = [phase EXCEPT ![t] = p]
  BY DEF Store, Goto
<1> HIDE DEF doc
<1>6. work'.doc = doc /\ work'.audio = work.audio
  BY <1>2, <1>4 DEF IsWork
<1>7. Carried(t)
  BY <1>2 DEF Sound
<1>8. Resolve(doc, Home(t), files[Home(t)], TRUE, World)
  <2>1. /\ Resolve(work.doc, Home(t), files[Home(t)], TRUE, World)
        /\ OfTurn(work.doc, files[Home(t)], t)
    BY <1>1, <1>7 DEF Carried
  <2>2. work.doc.messages \in Seq(Message) /\ work.doc.turns \in Seq(Contents)
    BY <1>2 DEF Good
  <2>3. t \in Contents
    BY DEF Contents
  <2>4. ASSUME NEW d, d = work.doc, NEW f, f = files[Home(t)], NEW w, w = World
        PROVE  Resolve(doc, Home(t), f, TRUE, w)
    <3>1. /\ Resolve(d, Home(t), f, TRUE, w)
          /\ d.messages \in Seq(Message) /\ d.turns \in Seq(Contents)
      BY <2>1, <2>2, <2>4
    <3>2. OfTurn(d, f, t)
      BY <2>1, <2>4
    <3>3. doc.messages = d.messages /\ doc.turns = d.turns \o <<t>>
      BY <1>3, <2>4
    <3> QED BY <2>3, <3>1, <3>2, <3>3, ResolveStored
  <2> QED BY <2>4
<1>9. Resolve(doc, Home(t), files[Home(t)], TRUE, World')
  <2>1. \A u \in Turns : phase[u] \in Past => phase'[u] \in Past
    BY <1>2, <1>5 DEF Past
  <2> QED BY <1>1, <1>8, <2>1, WorldGoesOn, ResolveLater
<1>10. files' = [files EXCEPT ![Home(t)] = files[Home(t)]]
  BY <1>1, <1>2 DEF Sound
<1>11. Has(files[Home(t)], UserMedia(t), t) /\ p \in Past
  BY <1>1, <1>5, <1>7 DEF Carried, Past
<1> QED BY <1>1, <1>4, <1>5, <1>6, <1>9, <1>10, <1>11, SoundGoesOn

\* A turn that no message is by yet writes files of its own.
LEMMA WriteSound ==
  ASSUME Named, Kept, Sound, NEW t \in Turns, Holding(t), phase[t] \notin Past, NEW p,
         p \notin {"idle", "locking", "storing"}, phase' = [phase EXCEPT ![t] = p],
         UNCHANGED <<disk, dirs, mutex, input, archive>>, work'.doc = work.doc,
         NEW ps, files' = [files EXCEPT ![Home(t)] = Put(files[Home(t)], ps, t)],
         \A q \in ps : \/ q \in UserMedia(t)
                       \/ q.dir = "rendered"
                       \/ q.dir = "reply" /\ q.index = Len(work.doc.turns),
         p \notin Gathering => phase[t] \notin Gathering \/ UserMedia(t) \subseteq ps,
         \/ work'.audio = work.audio
         \/ work'.audio = ps /\ ps \subseteq {Reply(Len(work.doc.turns))}
  PROVE  Sound'
<1> DEFINE f == files[Home(t)]
           fs == Put(files[Home(t)], ps, t)
<1>1. /\ mutex = t /\ Home(t) \in Sessions /\ phase = [u \in Turns |-> phase[u]]
      /\ work.doc.messages \in Seq(Message) /\ work.doc.turns \in Seq(Contents)
  BY HolderRemembers DEF Good
<1>2. Carried(t)
  BY <1>1 DEF Sound
<1>3. /\ t \in DOMAIN World.posts /\ World.posts[t].media = UserMedia(t)
      /\ t \notin World.spoken
  BY HolderInWorld
<1>4. \A qs : Has(f, qs, t) => Has(fs, qs, t)
  BY DEF Has, Put
<1>5. Has(fs, ps, t)
  BY DEF Has, Put
<1>6. Later(World, World')
  <2>1. \A u \in Turns : phase[u] \in Past => phase'[u] \in Past
    BY <1>1
  <2> QED BY <2>1, WorldGoesOn
<1>7. Resolve(work.doc, Home(t), fs, TRUE, World')
  <2>1. Resolve(work.doc, Home(t), fs, TRUE, World)
    <3>1. Resolve(work.doc, Home(t), f, TRUE, World)
      BY <1>2 DEF Carried
    <3> QED BY <1>1, <1>3, <3>1, ResolveWritten
  <2> HIDE DEF fs
  <2> QED BY <1>6, <2>1, ResolveLater
<1>8. disk[Home(t)] # None => Resolve(disk[Home(t)], Home(t), fs, TRUE, World')
  <2> SUFFICES ASSUME disk[Home(t)] # None
               PROVE  Resolve(disk[Home(t)], Home(t), fs, TRUE, World')
    OBVIOUS
  <2>1. /\ Resolve(disk[Home(t)], Home(t), f, TRUE, World) /\ disk[Home(t)].turns = work.doc.turns
        /\ disk[Home(t)].messages \in Seq(Message)
    BY <1>1, <1>2 DEF Sound, Carried, Kept, Stored, Good
  <2>2. Resolve(disk[Home(t)], Home(t), fs, TRUE, World)
    BY <1>1, <1>3, <2>1, ResolveWritten
  <2> HIDE DEF fs
  <2> QED BY <1>6, <2>2, ResolveLater
<1>9. p \notin Gathering => Has(fs, UserMedia(t), t)
  BY <1>2, <1>4, <1>5 DEF Carried, Has
<1>10. /\ work'.audio \subseteq {Reply(Len(work'.doc.turns))}
       /\ Has(fs, work'.audio, t)
  BY <1>2, <1>4, <1>5 DEF Carried
<1>11. files' = [files EXCEPT ![Home(t)] = fs]
  OBVIOUS
<1> HIDE DEF fs
<1> QED BY <1>7, <1>8, <1>9, <1>10, <1>11, SoundGoesOn

LEMMA SaveSound ==
  ASSUME Named, Kept, Sound, NEW t \in Turns, SaveUploads(t)
  PROVE  Sound'
<1>1. /\ Holding(t) /\ phase[t] \notin Past
      /\ UNCHANGED <<disk, dirs, mutex, work, input, archive>>
  BY DEF SaveUploads, At, Holding, Past
<1>2. PICK p, ps : /\ phase' = [phase EXCEPT ![t] = p]
                   /\ files' = [files EXCEPT ![Home(t)] = Put(files[Home(t)], ps, t)]
                   /\ ps \subseteq UserMedia(t)
                   /\ p = "failing" \/ (p \in {"hearing", "prepared"} /\ ps = UserMedia(t))
  <2>1. CASE /\ files' = [files EXCEPT ![Home(t)] = Put(@, UserMedia(t), t)]
             /\ Goto(t, IF input[t].voice THEN "hearing" ELSE "prepared")
    BY <2>1 DEF Goto
  <2>2. CASE /\ \E ps \in SUBSET UserMedia(t) : files' = [files EXCEPT ![Home(t)] = Put(@, ps, t)]
             /\ Goto(t, "failing")
    BY <2>2 DEF Goto
  <2> QED BY <2>1, <2>2 DEF SaveUploads
<1>3. /\ p \notin {"idle", "locking", "storing"}
      /\ p \notin Gathering => UserMedia(t) \subseteq ps
  BY <1>2 DEF Gathering
<1> QED BY <1>1, <1>2, <1>3, WriteSound

\* Rendering writes the pages of a document beside what was sent.
LEMMA LookSound ==
  ASSUME Named, Kept, Sound, NEW t \in Turns, Look(t)
  PROVE  Sound'
<1>1. /\ Holding(t) /\ phase[t] \notin Past /\ phase[t] \notin Gathering
      /\ phase' = [phase EXCEPT ![t] = "planning"]
      /\ UNCHANGED <<disk, dirs, mutex, input, archive>>
  BY DEF Look, At, Goto, Holding, Past, Gathering
<1>2. PICK seen : work' = [work EXCEPT !.seen = seen, !.called = TRUE, !.step = @ + 1]
  BY Zenon DEF Look
<1>3. files' = [files EXCEPT ![Home(t)] = Rendered(t)]
  BY DEF Look
<1>4. IsWork(work) /\ Home(t) \in Sessions
  BY <1>1, HolderRemembers
<1>5. work'.doc = work.doc /\ work'.audio = work.audio
  BY <1>2, <1>4 DEF IsWork
<1>6. CASE input[t].file \in Documents
  <2> DEFINE ps == {Page(input[t].file, k) : k \in 1..input[t].pages}
  <2>1. files' = [files EXCEPT ![Home(t)] = Put(files[Home(t)], ps, t)]
    BY <1>3, <1>6 DEF Rendered
  <2>2. \A q \in ps : q.dir = "rendered"
    BY DEF Page
  <2> HIDE DEF ps
  <2> QED BY <1>1, <1>5, <2>1, <2>2, WriteSound
<1>7. CASE input[t].file \notin Documents
  <2>1. files' = files
    BY <1>3, <1>4, <1>7 DEF Rendered, Sound
  <2> QED BY <1>1, <1>5, <2>1, SoundStays
<1> QED BY <1>6, <1>7

LEMMA SynthesizeSound ==
  ASSUME Named, Kept, Sound, NEW t \in Turns, Synthesize(t)
  PROVE  Sound'
<1> DEFINE wav == Reply(Len(work.doc.turns))
           ps == {wav}
<1>1. /\ Holding(t) /\ phase[t] \notin Past /\ phase[t] \notin Gathering
      /\ UNCHANGED <<disk, dirs, mutex, input, archive>>
  BY DEF Synthesize, At, Holding, Past, Gathering
<1>2. PICK p : p \in {"persisting", "failing"} /\ phase' = [phase EXCEPT ![t] = p]
  BY DEF Synthesize, Goto
<1>3. /\ work' = [work EXCEPT !.audio = ps]
      /\ files' = [files EXCEPT ![Home(t)] = Put(files[Home(t)], ps, t)]
  BY DEF Synthesize
<1>4. IsWork(work)
  BY <1>1, HolderRemembers
<1>5. /\ ps \subseteq {Reply(Len(work.doc.turns))}
      /\ \A q \in ps : q.dir = "reply" /\ q.index = Len(work.doc.turns)
  BY DEF Reply
<1> HIDE DEF ps
<1>6. work'.doc = work.doc /\ work'.audio = ps
  BY <1>3, <1>4 DEF IsWork
<1>7. p \notin {"idle", "locking", "storing"}
  BY <1>2
<1> QED BY <1>1, <1>2, <1>3, <1>5, <1>6, <1>7, WriteSound

\* The turn's two messages join the session in memory.
LEMMA AppendSound ==
  ASSUME Named, Kept, Sound, NEW t \in Turns, AppendMessages(t)
  PROVE  Sound'
<1> DEFINE u == [by |-> t, role |-> "user", media |-> Located(Home(t), UserMedia(t))]
           a == [by |-> t, role |-> "assistant", media |-> Located(Home(t), work.audio)]
           f == files[Home(t)]
<1>1. /\ Holding(t) /\ phase[t] = "persisting" /\ phase[t] \notin Past /\ phase[t] \notin Gathering
      /\ UNCHANGED <<disk, dirs, files, mutex, input, archive>>
  BY DEF AppendMessages, At, Holding, Past, Gathering
<1>2. PICK p : p \in {"storing", "failing"} /\ phase' = [phase EXCEPT ![t] = p]
  BY DEF AppendMessages, Goto
<1>3. /\ mutex = t /\ input[t] \in Input /\ Home(t) \in Sessions /\ phase = [v \in Turns |-> phase[v]]
      /\ IsWork(work) /\ Good(work.doc) /\ work.audio \subseteq Path /\ t \in Contents
  BY <1>1, HolderRemembers DEF Contents
<1>4. Carried(t)
  BY <1>3 DEF Sound
<1>5. /\ Has(f, UserMedia(t), t) /\ Has(f, work.audio, t)
      /\ work.audio \subseteq {Reply(Len(work.doc.turns))}
  BY <1>1, <1>4 DEF Carried
<1>6. /\ u \in Message /\ u.by = t /\ a \in Message /\ a.by = t
      /\ u.media = Located(Home(t), UserMedia(t)) /\ a.media = Located(Home(t), work.audio)
  <2>1. Located(Home(t), UserMedia(t)) \subseteq Place /\ Located(Home(t), work.audio) \subseteq Place
    BY <1>3, MediaOfUser, LocatedPlaces
  <2> QED BY <1>3, <2>1 DEF Message
<1>7. work' = [work EXCEPT !.doc.messages = @ \o <<u, a>>, !.doc.talk = @ \o <<t>>]
  BY DEF AppendMessages
<1>8. \A m \in u.media \cup a.media :
        /\ m.home = Home(t) /\ m.file \in DOMAIN f /\ f[m.file] = t
        /\ m.file.dir = "uploads" \/ m.file = Reply(Len(work.doc.turns))
  <2>1. \A q \in UserMedia(t) : q.dir = "uploads"
    BY DEF UserMedia, VoicePath, AttachmentPath, Upload
  <2> QED BY <1>5, <1>6, <2>1 DEF Has, Located
<1> HIDE DEF u, a
<1>9. /\ work'.audio = work.audio /\ work'.doc.turns = work.doc.turns
      /\ work'.doc.messages = work.doc.messages \o <<u, a>>
  BY <1>3, <1>7 DEF IsWork, IsDoc, Good
<1>10. /\ Later(World, World') /\ t \in World'.spoken
  <2>1. \A v \in Turns : phase[v] \in Past => phase'[v] \in Past
    BY <1>3, <1>2 DEF Past
  <2>2. Later(World, World')
    BY <1>1, <2>1, WorldGoesOn
  <2>3. t \in Received'
    BY <1>1, <1>3, HolderInWorld DEF Received, World, Posts
  <2>4. phase'[t] \in Past
    BY <1>2, <1>3 DEF Past
  <2> QED BY <2>2, <2>3, <2>4 DEF World, Spoken
<1>11. ~InSeq(t, work.doc.turns)
  <2>1. t \notin World.spoken
    BY <1>1, HolderInWorld
  <2>2. \A i \in DOMAIN work.doc.messages : work.doc.messages[i].by # t
    BY <1>4, <2>1 DEF Carried, Resolve
  <2>3. \A i \in DOMAIN work.doc.talk : 2 * i \in DOMAIN work.doc.messages
    BY <1>3 DEF Good, Paired
  <2>4. ~InSeq(t, work.doc.talk)
    BY <1>3, <2>2, <2>3 DEF Good, Paired, InSeq
  <2> QED BY <1>3, <2>4 DEF Good, InSeq
<1>12. Resolve(work.doc, Home(t), f, TRUE, World')
  BY <1>4, <1>10, ResolveLater DEF Carried
<1>13. Resolve(work'.doc, Home(t), f, TRUE, World')
  <2>1. work.doc.messages \in Seq(Message) /\ work.doc.turns \in Seq(Contents)
    BY <1>3 DEF Good
  <2> QED BY <1>6, <1>8, <1>9, <1>10, <1>11, <1>12, <2>1, ResolveAppended
<1>14. OfTurn(work'.doc, f, t)
  <2>1. \A m \in u.media \cup a.media : f[m.file] = t
    BY <1>8
  <2>2. work.doc.messages \in Seq(Message)
    BY <1>3 DEF Good
  <2>3. \A i \in DOMAIN work.doc.messages : work.doc.messages[i].by # t
    BY <1>1, <1>4, HolderInWorld DEF Carried, Resolve
  <2>4. ASSUME NEW i \in DOMAIN work'.doc.messages
        PROVE  \/ i \in DOMAIN work.doc.messages /\ work'.doc.messages[i] = work.doc.messages[i]
               \/ work'.doc.messages[i] \in {u, a}
    BY <1>6, <1>9, <2>2, <2>4
  <2> QED BY <2>1, <2>3, <2>4 DEF OfTurn
<1>15. /\ files' = [files EXCEPT ![Home(t)] = f]
       /\ disk[Home(t)] # None => Resolve(disk[Home(t)], Home(t), f, TRUE, World')
  BY <1>1, <1>3, <1>10, ResolveLater DEF Sound
<1>16. p \in Past /\ p \notin {"idle", "locking"}
  BY <1>2 DEF Past
<1> HIDE DEF f
<1> QED BY <1>1, <1>2, <1>5, <1>9, <1>13, <1>14, <1>15, <1>16, SoundGoesOn

-----------------------------------------------------------------------------
(* The beginning and end of a turn, export and import                       *)

\* The failure of a turn stores what it has in memory; its result is stored.
LEMMA LeavesSound ==
  ASSUME Named, Kept, Sound, NEW t \in Turns, Finish(t) \/ Fail(t)
  PROVE  Sound'
<1> DEFINE doc == [work.doc EXCEPT !.state = "failed", !.active = t]
<1>1. /\ Holding(t) /\ UNCHANGED <<dirs, files, input, archive>>
      /\ mutex' = None /\ phase' = [phase EXCEPT ![t] = "ended"]
  BY DEF Finish, Fail, At, Goto, Holding
<1>2. /\ mutex = t /\ Home(t) \in Sessions /\ phase = [v \in Turns |-> phase[v]]
      /\ Good(work.doc)
  BY <1>1, HolderRemembers
<1>3. disk' = disk \/ disk' = [disk EXCEPT ![Home(t)] = doc]
  BY DEF Finish, Fail, Written
<1>4. doc.messages = work.doc.messages /\ doc.turns = work.doc.turns
  BY <1>2 DEF Good, IsDoc
<1> HIDE DEF doc
<1>5. /\ Later(World, World')
      /\ \A u \in Turns : Home(u)' = Home(u) /\ UserMedia(u)' = UserMedia(u)
  <2>1. \A u \in Turns : phase[u] \in Past => phase'[u] \in Past
    BY <1>1, <1>2 DEF Past
  <2> QED BY <1>1, <2>1, WorldGoesOn
<1>6. Resolve(doc, Home(t), files[Home(t)], TRUE, World')
  BY <1>2, <1>4, <1>5, ResolveSame, ResolveLater DEF Sound, Carried
<1>7. \A s \in Sessions : disk'[s] # None => Resolve(disk'[s], s, files[s], TRUE, World')
  <2>1. \A s \in Sessions : disk'[s] = disk[s] \/ (s = Home(t) /\ disk'[s] = doc)
    BY <1>2, <1>3 DEF Kept, Shaped
  <2>2. \A s \in Sessions : disk[s] # None => Resolve(disk[s], s, files[s], TRUE, World')
    BY <1>5, ResolveLater DEF Sound
  <2> QED BY <1>6, <2>1, <2>2
<1>8. archive # None => Resolve(archive.doc, archive.id, archive.files, FALSE, World')
  BY <1>5, ResolveLater DEF Sound
<1>9. \A u \in Turns : /\ phase'[u] = "idle" => input[u] = None
                       /\ u \in Received' => input[u] \in Inputs /\ Home(u)' \in dirs
  BY <1>1, <1>2, <1>5 DEF Sound, Received
<1>10. mutex' \notin Turns /\ mutex' # Importer
  BY <1>1 DEF Named
<1> QED BY <1>1, <1>7, <1>8, <1>9, <1>10 DEF Sound

\* Who is sent something now is among no authors.
LEMMA ReceiveSound ==
  ASSUME Named, Kept, Sound, NEW t \in Turns, Receive(t)
  PROVE  Sound'
<1>1. /\ phase[t] = "idle" /\ input[t] = None /\ mutex # t
      /\ UNCHANGED <<disk, files, mutex, work, archive>>
  BY DEF Receive, At, Sound, Kept, Held, Holding
<1>2. /\ phase = [v \in Turns |-> phase[v]] /\ input = [v \in Turns |-> input[v]]
      /\ dirs \subseteq dirs'
  BY DEF Kept, Shaped, Receive
<1>3. \/ /\ phase' = [phase EXCEPT ![t] = "locking"]
         /\ \E i \in Inputs : input' = [input EXCEPT ![t] = i] /\ dirs' = dirs \cup {i.session}
      \/ phase' = [phase EXCEPT ![t] = "ended"] /\ UNCHANGED <<input, dirs>>
  BY DEF Receive, Goto
<1>4. /\ \A u \in Turns : u # t => /\ phase'[u] = phase[u] /\ input'[u] = input[u]
                                   /\ Home(u)' = Home(u) /\ UserMedia(u)' = UserMedia(u)
      /\ \/ phase'[t] = "locking" /\ input'[t] \in Inputs /\ Home(t)' \in dirs'
         \/ phase'[t] = "ended" /\ input'[t] = None
  BY <1>1, <1>2, <1>3 DEF Home, UserMedia, VoicePath, AttachmentPath, Attached
<1>5. t \notin Received /\ Received \subseteq Received' /\ \A u \in Received' : u \in Received \/ u = t
  BY <1>1, <1>4 DEF Received
<1>6. Later(World, World')
  <2>1. /\ World.posts = Posts /\ World.spoken = Spoken
        /\ World'.posts = Posts' /\ World'.spoken = Spoken'
    BY DEF World
  <2>2. DOMAIN Posts = Received /\ DOMAIN Posts' = Received'
    BY DEF Posts
  <2>3. \A u \in Received : u \in Turns /\ u # t
    BY <1>5 DEF Received
  <2>4. \A u \in Received : Posts'[u] = Posts[u]
    BY <1>4, <1>5, <2>3 DEF Posts
  <2>5. Spoken \subseteq Spoken'
    BY <1>4, <1>5, <2>3 DEF Spoken
  <2>6. \A u \in Spoken : u \in Received' => u \in Received
    BY DEF Spoken, Named, Received
  <2> QED BY <1>5, <2>1, <2>2, <2>4, <2>5, <2>6 DEF Later
<1>7. \A s \in Sessions : disk[s] # None => Resolve(disk[s], s, files[s], TRUE, World')
  BY <1>6, ResolveLater DEF Sound
<1>8. /\ archive # None => Resolve(archive.doc, archive.id, archive.files, FALSE, World')
      /\ mutex = Importer => Resolve(work.from.doc, work.from.id, work.from.files, FALSE, World')
  BY <1>6, ResolveLater DEF Sound
<1>9. ASSUME mutex \in Turns PROVE Carried(mutex)'
  <2> DEFINE v == mutex
  <2>1. /\ v \in Turns /\ Carried(v) /\ phase'[v] = phase[v]
        /\ Home(v)' = Home(v) /\ UserMedia(v)' = UserMedia(v)
    BY <1>1, <1>4, <1>9 DEF Sound
  <2>2. Resolve(work.doc, Home(v), files[Home(v)], TRUE, World')
    BY <1>6, <2>1, ResolveLater DEF Carried
  <2> QED BY <1>1, <2>1, <2>2 DEF Carried
<1>10. \A u \in Turns : /\ phase'[u] = "idle" => input'[u] = None
                        /\ u \in Received' => input'[u] \in Inputs /\ Home(u)' \in dirs'
  <2> SUFFICES ASSUME NEW u \in Turns
               PROVE  /\ phase'[u] = "idle" => input'[u] = None
                      /\ u \in Received' => input'[u] \in Inputs /\ Home(u)' \in dirs'
    OBVIOUS
  <2>1. CASE u = t
    BY <1>4, <2>1 DEF Received
  <2>2. CASE u # t
    BY <1>2, <1>4, <2>2 DEF Received, Sound
  <2> QED BY <2>1, <2>2
<1> QED BY <1>1, <1>7, <1>8, <1>9, <1>10 DEF Sound

LEMMA LockSound ==
  ASSUME Named, Kept, Sound, NEW t \in Turns, Lock(t)
  PROVE  Sound'
<1>1. /\ phase[t] = "locking" /\ mutex' = t
      /\ phase' = [phase EXCEPT ![t] = "receiving"]
      /\ UNCHANGED <<disk, dirs, files, input, archive>>
  BY DEF Lock, At, Goto
<1>2. /\ phase = [v \in Turns |-> phase[v]] /\ input[t] \in Inputs /\ Home(t) \in Sessions
      /\ t # Importer
  BY <1>1 DEF Kept, Shaped, Held, Named, Input, Home
<1>3. work'.doc = LoadSession(Home(t)) /\ work'.audio = {}
  BY DEF Lock
<1>4. /\ Later(World, World')
      /\ \A u \in Turns : Home(u)' = Home(u) /\ UserMedia(u)' = UserMedia(u)
  <2>1. \A u \in Turns : phase[u] \in Past => phase'[u] \in Past
    BY <1>1, <1>2 DEF Past
  <2> QED BY <1>1, <2>1, WorldGoesOn
<1>5. \A s \in Sessions : disk[s] # None => Resolve(disk[s], s, files[s], TRUE, World')
  BY <1>4, ResolveLater DEF Sound
<1>6. archive # None => Resolve(archive.doc, archive.id, archive.files, FALSE, World')
  BY <1>4, ResolveLater DEF Sound
<1>7. Carried(t)'
  <2>1. Resolve(work'.doc, Home(t), files[Home(t)], TRUE, World')
    <3>1. CASE disk[Home(t)] = None
      <4>1. work'.doc.messages = <<>>
        BY <1>3, <3>1 DEF LoadSession, NewSession
      <4> QED BY <4>1 DEF Resolve
    <3>2. CASE disk[Home(t)] # None
      BY <1>2, <1>3, <1>5, <3>2 DEF LoadSession
    <3> QED BY <3>1, <3>2
  <2>2. disk[Home(t)] # None => disk[Home(t)].turns = work'.doc.turns
    BY <1>3 DEF LoadSession
  <2>3. /\ phase'[t] \in Gathering /\ phase'[t] # "storing"
        /\ Has(files[Home(t)], work'.audio, t) /\ work'.audio = {}
    BY <1>1, <1>2, <1>3 DEF Gathering, Has
  <2> QED BY <1>1, <1>4, <2>1, <2>2, <2>3 DEF Carried
<1>8. \A u \in Turns : /\ phase'[u] = "idle" => input[u] = None
                       /\ u \in Received' => input[u] \in Inputs /\ Home(u)' \in dirs
  BY <1>1, <1>2, <1>4 DEF Sound, Received
<1> QED BY <1>1, <1>2, <1>5, <1>6, <1>7, <1>8 DEF Sound

\* Between turns nothing that was sent or said changes.
LEMMA WorldStands ==
  ASSUME Named, UNCHANGED <<phase, input>>
  PROVE  /\ Later(World, World') /\ Received' = Received /\ \A u \in Turns : Home(u)' = Home(u)
<1>1. \A u \in Turns : phase[u] \in Past => phase'[u] \in Past
  OBVIOUS
<1> QED BY <1>1, WorldGoesOn DEF Received

LEMMA ExportSound ==
  ASSUME Named, Kept, Sound, NEW s \in Sessions, Export(s)
  PROVE  Sound'
<1>1. /\ mutex = None /\ disk[s] # None
      /\ UNCHANGED <<disk, dirs, files, mutex, work, phase, input>>
  BY DEF Export
<1> DEFINE kept == {p \in DOMAIN files[s] : p.dir \in Archived}
           g == [p \in kept |-> files[s][p]]
<1>2. archive'.doc = disk[s] /\ archive'.id = s /\ archive'.files = g
  BY DEF Export, Packed
<1>3. \A p \in DOMAIN files[s] : p.dir = "uploads" => p \in DOMAIN g /\ g[p] = files[s][p]
  BY DEF Archived
<1> HIDE DEF g
<1>4. Later(World, World') /\ Received' = Received /\ \A u \in Turns : Home(u)' = Home(u)
  BY <1>1, WorldStands
<1>5. \A z \in Sessions : disk[z] # None => Resolve(disk[z], z, files[z], TRUE, World')
  BY <1>4, ResolveLater DEF Sound
<1>6. Resolve(disk[s], s, g, FALSE, World')
  BY <1>1, <1>3, <1>5, ResolveKept
<1>7. mutex \notin Turns /\ mutex # Importer
  BY <1>1 DEF Named
<1> QED BY <1>1, <1>2, <1>4, <1>5, <1>6, <1>7 DEF Sound

LEMMA ImportBeginSound ==
  ASSUME Named, Kept, Sound, ImportBegin
  PROVE  Sound'
<1>1. /\ mutex' = Importer /\ archive # None
      /\ UNCHANGED <<disk, dirs, files, phase, input, archive>>
  BY DEF ImportBegin
<1>2. work'.from = archive
  BY DEF ImportBegin
<1>3. Later(World, World') /\ Received' = Received /\ \A u \in Turns : Home(u)' = Home(u)
  BY <1>1, WorldStands
<1>4. \A z \in Sessions : disk[z] # None => Resolve(disk[z], z, files[z], TRUE, World')
  BY <1>3, ResolveLater DEF Sound
<1>5. Resolve(archive.doc, archive.id, archive.files, FALSE, World')
  BY <1>1, <1>3, ResolveLater DEF Sound
<1>6. Importer \notin Turns
  BY DEF Named
<1> QED BY <1>1, <1>2, <1>3, <1>4, <1>5, <1>6 DEF Sound

\* Under another name an archive resolves where no turn has run.
LEMMA RewrittenResolves ==
  ASSUME NEW d, NEW a, NEW b, NEW f, NEW w, NEW n, Resolve(d, a, f, FALSE, w),
         Good(d), a \in Sessions, b \in Sessions,
         n.messages = Rewritten(d, a, b).messages, n.turns = d.turns,
         \A u \in w.spoken : ~From(u, b, w)
  PROVE  Resolve(n, b, f, TRUE, w)
<1>1. n.messages = [i \in DOMAIN d.messages |-> Moved(d.messages[i], a, b)]
  BY DEF Rewritten, Good, IsDoc
<1>2. d.messages \in Seq(Message)
  BY DEF Good
<1>3. ASSUME NEW m \in Message
      PROVE  /\ Moved(m, a, b).by = m.by
             /\ \A q \in Moved(m, a, b).media :
                  \E p \in m.media : q.file = p.file /\ (p.home = a => q.home = b)
  <2> DEFINE media == {[p EXCEPT !.home = IF p.home = a THEN b ELSE p.home] : p \in m.media}
  <2>1. ASSUME NEW p \in Place, NEW q, q = [p EXCEPT !.home = IF p.home = a THEN b ELSE p.home]
        PROVE  q.file = p.file /\ (p.home = a => q.home = b)
    BY <2>1 DEF Place
  <2>2. m.media \subseteq Place
    BY DEF Message
  <2>3. \A q \in media : \E p \in m.media : q.file = p.file /\ (p.home = a => q.home = b)
    BY <2>1, <2>2
  <2>4. Moved(m, a, b) = [m EXCEPT !.media = media]
    BY DEF Moved
  <2> HIDE DEF media
  <2>5. Moved(m, a, b).by = m.by /\ Moved(m, a, b).media = media
    BY <2>4 DEF Message
  <2> QED BY <2>3, <2>5
<1>4. \A i \in DOMAIN d.messages : n.messages[i].by = d.messages[i].by
  BY <1>1, <1>2, <1>3
<1>5. DOMAIN n.messages = DOMAIN d.messages
  BY <1>1
<1> SUFFICES ASSUME NEW i \in DOMAIN d.messages
             PROVE  n.messages[i].by \in w.spoken /\ Placed(n, i, b, f, TRUE, w)
  BY <1>5 DEF Resolve
<1>6. d.messages[i].by \in w.spoken /\ Placed(d, i, a, f, FALSE, w)
  BY DEF Resolve
<1>7. ~From(n.messages[i].by, b, w)
  BY <1>4, <1>6
<1>8. ASSUME NEW p, NEW u, KeepsAt(d, i, p, u, w) PROVE KeepsAt(n, i, p, u, w)
  <2>1. \A j \in 1..i : j \in DOMAIN d.messages
    BY <1>2
  <2> QED BY <1>4, <1>8, <2>1 DEF KeepsAt
<1>9. ASSUME NEW q \in n.messages[i].media
      PROVE  \E p \in d.messages[i].media : q.file = p.file /\ (p.home = a => q.home = b)
  BY <1>1, <1>2, <1>3
<1> QED BY <1>4, <1>6, <1>7, <1>8, <1>9 DEF Placed

LEMMA ImportEndSound ==
  ASSUME Named, Kept, Sound, ImportEnd
  PROVE  Sound'
<1> DEFINE s == work.into
           moved == Rewritten(work.from.doc, work.from.id, s)
           new == [moved EXCEPT !.state = "ready", !.active = None]
<1>1. /\ mutex = Importer /\ mutex' = None
      /\ UNCHANGED <<phase, input, archive>>
  BY DEF ImportEnd
<1>2. /\ s \in Sessions /\ work.from.id \in Sessions /\ Good(work.from.doc)
      /\ Resolve(work.from.doc, work.from.id, work.from.files, FALSE, World)
  BY <1>1 DEF Kept, Held, Sound
<1>3. Later(World, World') /\ Received' = Received /\ \A u \in Turns : Home(u)' = Home(u)
  BY <1>1, WorldStands
<1>4. \A z \in Sessions : disk[z] # None => Resolve(disk[z], z, files[z], TRUE, World')
  BY <1>3, ResolveLater DEF Sound
<1>5. archive # None => Resolve(archive.doc, archive.id, archive.files, FALSE, World')
  BY <1>3, ResolveLater DEF Sound
<1>6. mutex' \notin Turns /\ mutex' # Importer
  BY <1>1 DEF Named
<1>7. CASE s \in dirs
  <2>1. UNCHANGED <<disk, dirs, files>>
    BY <1>7 DEF ImportEnd
  <2> QED BY <1>1, <1>3, <1>4, <1>5, <1>6, <2>1 DEF Sound
<1>8. CASE s \notin dirs
  <2>1. /\ dirs' = dirs \cup {s} /\ files' = [files EXCEPT ![s] = work.from.files]
        /\ disk' = [disk EXCEPT ![s] = new]
    BY <1>8 DEF ImportEnd, Written
  <2>2. new.messages = moved.messages /\ new.turns = work.from.doc.turns
    <3>1. Good(moved) /\ moved.turns = work.from.doc.turns
      <4>1. \A n : n = moved => Good(n) /\ n.turns = work.from.doc.turns
        BY <1>2, RewrittenIsGood
      <4> QED BY <4>1
    <3> HIDE DEF moved
    <3> QED BY <3>1 DEF Good, IsDoc
  <2>3. \A u \in World.spoken : ~From(u, s, World)
    <3> SUFFICES ASSUME NEW u \in Received, Home(u) = s PROVE FALSE
      BY DEF World, From, Posts
    <3> QED BY <1>8 DEF Sound, Received
  <2> HIDE DEF new
  <2>4. Resolve(new, s, work.from.files, TRUE, World)
    <3>1. ASSUME NEW d, d = work.from.doc, NEW a, a = work.from.id, NEW f, f = work.from.files,
                 NEW b, b = s
          PROVE  Resolve(new, b, f, TRUE, World)
      BY <1>2, <2>2, <2>3, <3>1, RewrittenResolves
    <3> QED BY <3>1
  <2> HIDE DEF moved, s
  <2>5. Resolve(new, s, work.from.files, TRUE, World')
    BY <1>3, <2>4, ResolveLater
  <2>6. /\ files' = [z \in Sessions |-> files'[z]] /\ files'[s] = work.from.files
        /\ disk'[s] = new
        /\ \A z \in Sessions : z # s => disk'[z] = disk[z] /\ files'[z] = files[z]
    BY <1>2, <2>1 DEF Sound, Kept, Shaped
  <2>7. \A z \in Sessions : disk'[z] # None => Resolve(disk'[z], z, files'[z], TRUE, World')
    <3> SUFFICES ASSUME NEW z \in Sessions, disk'[z] # None
                 PROVE  Resolve(disk'[z], z, files'[z], TRUE, World')
      OBVIOUS
    <3>1. CASE z = s
      BY <2>5, <2>6, <3>1
    <3>2. CASE z # s
      BY <1>4, <2>6, <3>2
    <3> QED BY <3>1, <3>2
  <2>8. \A u \in Turns : /\ phase'[u] = "idle" => input'[u] = None
                         /\ u \in Received' => input'[u] \in Inputs /\ Home(u)' \in dirs'
    BY <1>1, <1>3, <2>1 DEF Sound
  <2> QED BY <1>1, <1>5, <1>6, <2>6, <2>7, <2>8 DEF Sound
<1> QED BY <1>7, <1>8

LEMMA CrashSound ==
  ASSUME Named, Kept, Sound, Crash
  PROVE  Sound'
<1>1. /\ mutex' = None /\ UNCHANGED <<disk, dirs, files, input, archive>>
      /\ phase' = [t \in Turns |-> IF phase[t] = "idle" THEN "idle" ELSE "ended"]
  BY DEF Crash, At
<1>2. /\ Later(World, World')
      /\ \A u \in Turns : Home(u)' = Home(u)
  <2>1. \A u \in Turns : phase[u] \in Past => phase'[u] \in Past
    BY <1>1 DEF Past
  <2> QED BY <1>1, <2>1, WorldGoesOn
<1>3. \A z \in Sessions : disk[z] # None => Resolve(disk[z], z, files[z], TRUE, World')
  BY <1>2, ResolveLater DEF Sound
<1>4. archive # None => Resolve(archive.doc, archive.id, archive.files, FALSE, World')
  BY <1>2, ResolveLater DEF Sound
<1>5. mutex' \notin Turns /\ mutex' # Importer
  BY <1>1 DEF Named
<1>6. \A u \in Turns : /\ phase'[u] = "idle" => input[u] = None
                       /\ u \in Received' => input[u] \in Inputs /\ Home(u)' \in dirs
  BY <1>1, <1>2 DEF Sound, Received
<1> QED BY <1>1, <1>3, <1>4, <1>5, <1>6 DEF Sound

LEMMA SoundInit == Named /\ SessionInit => Sound
<1> SUFFICES ASSUME Named, SessionInit PROVE Sound
  OBVIOUS
<1>1. ASSUME NEW s \in Sessions PROVE Resolve(Foreign(s).doc, s, Foreign(s).files, FALSE, World)
  <2> DEFINE d == Foreign(s).doc
             ps == {Upload(0, n) : n \in Names}
             u == [by |-> Guest, role |-> "user", media |-> Located(s, ps)]
             a == [by |-> Guest, role |-> "assistant", media |-> {}]
  <2>1. /\ Foreign(s).files = [p \in ps |-> Guest] /\ d.messages = <<u, a>>
        /\ Guest \in World.spoken
    BY DEF Foreign, NewSession, World, Spoken
  <2>2. \A q \in ps : q.dir = "uploads"
    BY DEF Upload
  <2>3. \A m \in u.media \cup a.media : m.home = s /\ m.file \in ps
    BY DEF Located
  <2>4. u.by = Guest /\ a.by = Guest
    OBVIOUS
  <2> HIDE DEF d, ps, u, a
  <2> SUFFICES ASSUME NEW i \in DOMAIN d.messages
               PROVE  /\ d.messages[i].by \in World.spoken
                      /\ Placed(d, i, s, Foreign(s).files, FALSE, World)
    BY DEF Resolve, d
  <2>5. d.messages[i] \in {u, a}
    BY <2>1
  <2>6. d.messages[i].by = Guest /\ \A m \in d.messages[i].media : m.home = s /\ m.file \in ps
    BY <2>3, <2>4, <2>5
  <2> QED BY <2>1, <2>2, <2>6 DEF Placed, KeepsAt
<1>2. archive # None => Resolve(archive.doc, archive.id, archive.files, FALSE, World)
  <2>1. ASSUME NEW s PROVE Foreign(s).id = s
    BY DEF Foreign
  <2> QED BY <1>1, <2>1 DEF SessionInit
<1>3. mutex \notin Turns /\ mutex # Importer
  BY DEF SessionInit, Named
<1>4. \A t \in Turns : input[t] = None
  BY DEF SessionInit
<1> QED BY <1>2, <1>3, <1>4 DEF SessionInit, Sound, Received

LEMMA NextSound == Named /\ Kept /\ Sound /\ [SessionNext]_sessionVars => Sound'
<1> SUFFICES ASSUME Named, Kept, Sound, [SessionNext]_sessionVars PROVE Sound'
  OBVIOUS
<1>1. CASE UNCHANGED sessionVars
  <2>1. UNCHANGED <<disk, dirs, files, mutex, work, phase, input, archive>>
    BY <1>1 DEF sessionVars
  <2>2. /\ World' = World /\ Received' = Received
        /\ \A u : Home(u)' = Home(u) /\ UserMedia(u)' = UserMedia(u)
    BY <2>1 DEF World, Posts, Spoken, Received, Home, UserMedia, VoicePath, AttachmentPath, Attached
  <2>3. \A u : Carried(u)' <=> Carried(u)
    BY <2>1, <2>2 DEF Carried
  <2> QED BY <2>1, <2>2, <2>3 DEF Sound
<1>2. ASSUME NEW t \in Turns, Receive(t) \/ Lock(t) \/ TurnStep(t) PROVE Sound'
  BY <1>2, ReceiveSound, LockSound, TransitionsSound, QuietStepsSound, SaveSound, ConcludeSound,
     LookSound, SynthesizeSound, AppendSound, StoreSound, LeavesSound, Zenon DEF TurnStep
<1>3. ASSUME NEW s \in Sessions, Export(s) PROVE Sound'
  BY <1>3, ExportSound
<1>4. CASE ImportBegin \/ ImportEnd \/ Crash
  BY <1>4, ImportBeginSound, ImportEndSound, CrashSound
<1> QED BY <1>1, <1>2, <1>3, <1>4, Zenon DEF SessionNext

\* What a stored message names lies in the session that holds it, and what the
\* media route serves for it is what was sent with that message or spoken in
\* reply to it, except what a later turn replaced and the spoken replies of
\* imported sessions (see MediaResolves): for any number of turns and sessions,
\* whatever throws, whenever the server dies and whatever is imported
\* (src/src/server.cpp:3022-3660, 3862-4300).
THEOREM MediaIsKept ==
  ASSUME Named PROVE SessionSpec => []MediaResolves
<1>1. Sound => MediaResolves
  <2> SUFFICES ASSUME Sound, NEW s \in Sessions, disk[s] # None,
                      NEW i \in DOMAIN disk[s].messages, NEW m \in disk[s].messages[i].media
               PROVE  /\ m.home = s
                      /\ m.file.dir = "uploads" \/ Here(disk[s].messages[i].by, s) => Served(s, i, m)
    BY DEF MediaResolves
  <2>1. Placed(disk[s], i, s, files[s], TRUE, World)
    BY DEF Sound, Resolve
  <2>2. \A u : Here(u, s) => From(u, s, World)
    BY DEF Here, From, World, Posts
  <2>3. \A u, p : KeepsAt(disk[s], i, p, u, World) => Keeps(disk[s], i, p, u)
    BY DEF KeepsAt, Keeps, World, Posts
  <2> QED BY <2>1, <2>2, <2>3 DEF Placed, Served
<1> QED BY KeptInit, NextKeeps, SoundInit, NextSound, <1>1, PTL DEF SessionSpec

-----------------------------------------------------------------------------
(* The types                                                                *)

\* None is nothing that a turn or an import keeps in memory.
Blank == ~IsWork(None) /\ \A s, a : None # [into |-> s, from |-> a]

Owner == Turns \cup {None}
Media(f) == f \in [DOMAIN f -> Contents]

\* What SessionTypeOK says, and what is about to be stored.
SessionTyped ==
  /\ files = [s \in Sessions |-> files[s]]
  /\ \A s \in Sessions : Media(files[s]) /\ (disk[s] # None => disk[s].active \in Owner)
  /\ dirs \subseteq Sessions
  /\ mutex \in Turns \cup {Importer, None}
  /\ (mutex = None) = (work = None)
  /\ mutex \in Turns => work.doc.active \in Owner
  /\ mutex = Importer => Media(work.from.files)
  /\ archive # None => Media(archive.files)
  /\ input \in [Turns -> Inputs \cup {None}]
  /\ reply \in [Turns -> {"none", "result", "lost", "error"}]

\* A turn that holds the mutex goes on: it may write its session and its files.
LEMMA HolderTyped ==
  ASSUME Named, Blank, Kept, SessionTyped, NEW t \in Turns, Holding(t),
         UNCHANGED <<dirs, mutex, input, reply, archive>>,
         IsWork(work'), work'.doc.active \in Owner,
         NEW f, Media(f), files' = files \/ files' = [files EXCEPT ![Home(t)] = f],
         disk' = disk \/ disk' = [disk EXCEPT ![Home(t)] = work'.doc]
  PROVE  SessionTyped'
<1>1. mutex = t /\ Home(t) \in Sessions /\ mutex # Importer /\ mutex # None
  BY HolderRemembers DEF Named
<1>2. work' # None
  BY DEF Blank
<1>3. /\ files' = [s \in Sessions |-> files'[s]]
      /\ \A s \in Sessions : files'[s] = files[s] \/ files'[s] = f
  BY <1>1 DEF SessionTyped
<1>4. \A s \in Sessions : disk'[s] = disk[s] \/ disk'[s] = work'.doc
  BY <1>1 DEF Kept, Shaped
<1>5. \A s \in Sessions : Media(files'[s]) /\ (disk'[s] # None => disk'[s].active \in Owner)
  BY <1>3, <1>4 DEF SessionTyped
<1>6. archive # None => Media(archive.files)
  BY DEF SessionTyped
<1>7. QED BY <1>1, <1>2, <1>3, <1>5, <1>6 DEF SessionTyped

\* It gives the mutex back; a failure writes the session it holds.
LEMMA LeaverTyped ==
  ASSUME Named, Kept, SessionTyped, NEW t \in Turns, Holding(t),
         mutex' = None, work' = None, UNCHANGED <<dirs, files, input, archive>>,
         NEW r \in {"result", "lost", "error"}, reply' = [reply EXCEPT ![t] = r],
         NEW d, d.active \in Owner,
         disk' = disk \/ disk' = [disk EXCEPT ![Home(t)] = d]
  PROVE  SessionTyped'
<1>1. Home(t) \in Sessions
  BY HolderRemembers
<1>2. \A s \in Sessions : disk'[s] = disk[s] \/ disk'[s] = d
  BY <1>1 DEF Kept, Shaped
<1>3. \A s \in Sessions : disk'[s] # None => disk'[s].active \in Owner
  BY <1>2 DEF SessionTyped
<1>4. None \notin Turns \cup {Importer}
  BY DEF Named
<1>5. reply' \in [Turns -> {"none", "result", "lost", "error"}]
  BY DEF SessionTyped
<1>6. QED BY <1>3, <1>4, <1>5 DEF SessionTyped

\* A transition names the turn as the active one.
LEMMA TransitionTyped ==
  ASSUME Named, Blank, Kept, SessionTyped, NEW t \in Turns, Holding(t), NEW state, NEW next,
         Transition(t, state, next), UNCHANGED <<dirs, files, mutex, input, reply, archive>>
  PROVE  SessionTyped'
<1> DEFINE doc == [work.doc EXCEPT !.state = state, !.active = t]
<1>1. IsWork(work) /\ Good(work.doc) /\ Home(t) \in Sessions
  BY HolderRemembers
<1>2. doc.active = t
  <2>1. ASSUME NEW d, Good(d), NEW n, n = [d EXCEPT !.state = state, !.active = t]
        PROVE  n.active = t
    BY <2>1 DEF Good, IsDoc
  <2>2. QED BY <1>1, <2>1, Zenon
<1>3. work' = [work EXCEPT !.doc = doc] /\ disk' = [disk EXCEPT ![Home(t)] = doc]
  BY DEF Transition, Written
<1> HIDE DEF doc
<1>4. IsWork(work') /\ work'.doc = doc
  BY <1>1, <1>3 DEF IsWork
<1>5. Media(files[Home(t)])
  BY <1>1 DEF SessionTyped
<1>6. work'.doc.active \in Owner
  BY <1>2, <1>4 DEF Owner
<1>7. QED BY <1>3, <1>4, <1>5, <1>6, HolderTyped

\* What is put among the files of a session is somebody's.
LEMMA PutTyped ==
  ASSUME NEW f, Media(f), NEW ps, NEW v \in Contents
  PROVE  Media(Put(f, ps, v))
BY DEF Media, Put

LEMMA TransitionsTyped ==
  ASSUME Named, Blank, Kept, SessionTyped, NEW t \in Turns,
         \/ ReceiveInput(t) \/ Hear(t) \/ Prepare(t) \/ Plan(t) \/ StreamAnswer(t)
         \/ AskTool(t) \/ Speak(t)
  PROVE  SessionTyped'
<1>1. Holding(t)
  BY DEF ReceiveInput, Hear, Prepare, Plan, StreamAnswer, AskTool, Speak, At, Holding
<1>2. /\ \E state, next : Transition(t, state, next)
      /\ UNCHANGED <<dirs, files, mutex, input, reply, archive>>
  BY Zenon DEF ReceiveInput, Hear, Prepare, Plan, StreamAnswer, AskTool, Speak
<1>3. QED BY <1>1, <1>2, TransitionTyped

LEMMA QuietTyped ==
  ASSUME Named, Blank, Kept, SessionTyped, NEW t \in Turns,
         \/ Transcribe(t) \/ StepLimit(t) \/ Answer(t) \/ Throw(t)
  PROVE  SessionTyped'
BY DEF Transcribe, StepLimit, Answer, Throw, SessionTyped

LEMMA SavesTyped ==
  ASSUME Named, Blank, Kept, SessionTyped, NEW t \in Turns, SaveUploads(t)
  PROVE  SessionTyped'
<1>1. Holding(t) /\ UNCHANGED <<disk, dirs, mutex, work, input, reply, archive>>
  BY DEF SaveUploads, At, Holding
<1>2. PICK ps : files' = [files EXCEPT ![Home(t)] = Put(@, ps, t)]
  BY DEF SaveUploads
<1>3. Home(t) \in Sessions /\ IsWork(work) /\ mutex = t /\ t \in Contents
  BY <1>1, HolderRemembers DEF Contents
<1>4. Media(Put(files[Home(t)], ps, t)) /\ work.doc.active \in Owner
  BY <1>3, PutTyped DEF SessionTyped
<1>5. QED BY <1>1, <1>2, <1>3, <1>4, HolderTyped

LEMMA ConcludesTyped ==
  ASSUME Named, Blank, Kept, SessionTyped, NEW t \in Turns, Conclude(t)
  PROVE  SessionTyped'
<1>1. Holding(t) /\ UNCHANGED <<dirs, files, mutex, input, reply, archive>>
  BY DEF Conclude, At, Holding
<1>2. CASE \E next : Transition(t, "llm_final", next)
  BY <1>1, <1>2, TransitionTyped
<1>3. CASE UNCHANGED <<disk, work>>
  BY <1>1, <1>3 DEF SessionTyped
<1>4. QED BY <1>2, <1>3, Zenon DEF Conclude

LEMMA LooksTyped ==
  ASSUME Named, Blank, Kept, SessionTyped, NEW t \in Turns, Look(t)
  PROVE  SessionTyped'
<1>1. Holding(t) /\ UNCHANGED <<disk, dirs, mutex, input, reply, archive>>
  BY DEF Look, At, Holding
<1>2. PICK seen : work' = [work EXCEPT !.seen = seen, !.called = TRUE, !.step = @ + 1]
  BY Zenon DEF Look
<1>3. files' = [files EXCEPT ![Home(t)] = Rendered(t)]
  BY DEF Look
<1>4. Home(t) \in Sessions /\ IsWork(work) /\ mutex = t /\ t \in Contents
  BY <1>1, HolderRemembers DEF Contents
<1>5. IsWork(work') /\ work'.doc = work.doc
  BY <1>2, <1>4 DEF IsWork
<1>6. Media(Rendered(t)) /\ work.doc.active \in Owner
  BY <1>4, PutTyped DEF SessionTyped, Rendered
<1>7. QED BY <1>1, <1>3, <1>5, <1>6, HolderTyped

LEMMA SynthesizesTyped ==
  ASSUME Named, Blank, Kept, SessionTyped, NEW t \in Turns, Synthesize(t)
  PROVE  SessionTyped'
<1>1. Holding(t) /\ UNCHANGED <<disk, dirs, mutex, input, reply, archive>>
  BY DEF Synthesize, At, Holding
<1>2. PICK ps : /\ files' = [files EXCEPT ![Home(t)] = Put(@, ps, t)]
                /\ work' = [work EXCEPT !.audio = ps]
  BY Zenon DEF Synthesize
<1>3. Home(t) \in Sessions /\ IsWork(work) /\ mutex = t /\ t \in Contents
  BY <1>1, HolderRemembers DEF Contents
<1>4. IsWork(work') /\ work'.doc = work.doc
  BY <1>2, <1>3 DEF IsWork
<1>5. Media(Put(files[Home(t)], ps, t)) /\ work.doc.active \in Owner
  BY <1>3, PutTyped DEF SessionTyped
<1>6. QED BY <1>1, <1>2, <1>4, <1>5, HolderTyped

LEMMA AppendsTyped ==
  ASSUME Named, Blank, Kept, SessionTyped, NEW t \in Turns, AppendMessages(t)
  PROVE  SessionTyped'
<1>1. Holding(t) /\ UNCHANGED <<disk, dirs, files, mutex, input, reply, archive>>
  BY DEF AppendMessages, At, Holding
<1>2. PICK more : work' = [work EXCEPT !.doc.messages = @ \o more, !.doc.talk = @ \o <<t>>]
  BY Zenon DEF AppendMessages
<1>3. Home(t) \in Sessions /\ IsWork(work) /\ Good(work.doc) /\ mutex = t
  BY <1>1, HolderRemembers
<1>4. IsWork(work') /\ work'.doc.active = work.doc.active
  BY <1>2, <1>3 DEF IsWork, Good, IsDoc
<1>5. Media(files[Home(t)]) /\ work.doc.active \in Owner
  BY <1>3 DEF SessionTyped
<1>6. QED BY <1>1, <1>4, <1>5, HolderTyped

LEMMA StoresTyped ==
  ASSUME Named, Blank, Kept, SessionTyped, NEW t \in Turns, Store(t)
  PROVE  SessionTyped'
<1> DEFINE doc == [work.doc EXCEPT !.turns = @ \o <<t>>, !.state = "ready", !.active = None]
<1>1. Holding(t) /\ UNCHANGED <<dirs, files, mutex, input, reply, archive>>
  BY DEF Store, At, Holding
<1>2. work' = [work EXCEPT !.doc = doc] /\ disk' = [disk EXCEPT ![Home(t)] = doc]
  BY DEF Store, Written
<1>3. Home(t) \in Sessions /\ IsWork(work) /\ Good(work.doc)
  BY <1>1, HolderRemembers
<1>4. doc.active = None
  BY <1>3 DEF Good, IsDoc
<1> HIDE DEF doc
<1>5. IsWork(work') /\ work'.doc = doc
  BY <1>2, <1>3 DEF IsWork
<1>6. Media(files[Home(t)]) /\ work'.doc.active \in Owner
  BY <1>3, <1>4, <1>5 DEF SessionTyped, Owner
<1>7. QED BY <1>1, <1>2, <1>5, <1>6, HolderTyped

LEMMA LeavesTyped ==
  ASSUME Named, Blank, Kept, SessionTyped, NEW t \in Turns, Finish(t) \/ Fail(t)
  PROVE  SessionTyped'
<1>1. Holding(t) /\ mutex' = None /\ work' = None /\ UNCHANGED <<dirs, files, input, archive>>
  BY DEF Finish, Fail, At, Holding
<1>2. IsWork(work) /\ Good(work.doc) /\ mutex = t
  BY <1>1, HolderRemembers
<1>3. work.doc.active \in Owner
  BY <1>2 DEF SessionTyped
<1>4. CASE Finish(t)
  <2>1. disk' = disk /\ \E r \in {"result", "lost"} : reply' = [reply EXCEPT ![t] = r]
    BY <1>4 DEF Finish
  <2>2. QED BY <1>1, <1>3, <2>1, LeaverTyped
<1>5. CASE Fail(t)
  <2> DEFINE doc == [work.doc EXCEPT !.state = "failed", !.active = t]
  <2>1. disk' = [disk EXCEPT ![Home(t)] = doc] /\ reply' = [reply EXCEPT ![t] = "error"]
    BY <1>5 DEF Fail, Written
  <2>2. doc.active \in Owner
    <3>1. ASSUME NEW d, Good(d), NEW n, n = [d EXCEPT !.state = "failed", !.active = t]
          PROVE  n.active = t
      BY <3>1 DEF Good, IsDoc
    <3>2. QED BY <1>2, <3>1 DEF Owner
  <2> HIDE DEF doc
  <2>3. QED BY <1>1, <2>1, <2>2, LeaverTyped
<1>6. QED BY <1>4, <1>5

LEMMA ReceivesTyped ==
  ASSUME Named, Blank, Kept, SessionTyped, NEW t \in Turns, Receive(t)
  PROVE  SessionTyped'
<1>1. UNCHANGED <<disk, files, mutex, work, archive>>
  BY DEF Receive
<1>2. /\ input' \in [Turns -> Inputs \cup {None}] /\ dirs' \subseteq Sessions
      /\ reply' \in [Turns -> {"none", "result", "lost", "error"}]
  BY DEF Receive, SessionTyped, Named, Input
<1>3. QED BY <1>1, <1>2 DEF SessionTyped

LEMMA LocksTyped ==
  ASSUME Named, Blank, Kept, SessionTyped, NEW t \in Turns, Lock(t)
  PROVE  SessionTyped'
<1>1. mutex' = t /\ UNCHANGED <<disk, dirs, files, input, reply, archive>>
  BY DEF Lock
<1>2. /\ IsWork(work') /\ work'.doc = LoadSession(Home(t))
  BY DEF Lock, IsWork
<1>3. Home(t) \in Sessions
  BY DEF Lock, At, Kept, Held, Named, Input, Home
<1>4. LoadSession(Home(t)).active \in Owner
  BY <1>3 DEF LoadSession, NewSession, SessionTyped, Owner
<1>5. work' # None /\ mutex' # None /\ mutex' # Importer
  BY <1>1, <1>2 DEF Blank, Named
<1>6. work'.doc.active \in Owner
  BY <1>2, <1>4
<1>7. QED BY <1>1, <1>5, <1>6 DEF SessionTyped

LEMMA ExportsTyped ==
  ASSUME Named, Blank, Kept, SessionTyped, NEW s \in Sessions, Export(s)
  PROVE  SessionTyped'
<1>1. UNCHANGED <<disk, dirs, files, mutex, work, phase, input, reply>>
  BY DEF Export
<1>2. PICK kept \in SUBSET DOMAIN files[s] : archive'.files = [p \in kept |-> files[s][p]]
  BY DEF Export, Packed
<1>3. Media(archive'.files)
  BY <1>2 DEF SessionTyped, Media
<1>4. QED BY <1>1, <1>3 DEF SessionTyped

LEMMA ImportBeginTyped ==
  ASSUME Named, Blank, Kept, SessionTyped, ImportBegin
  PROVE  SessionTyped'
<1>1. /\ mutex' = Importer /\ archive # None
      /\ UNCHANGED <<disk, dirs, files, phase, input, reply, archive>>
  BY DEF ImportBegin
<1>2. PICK s : work' = [into |-> s, from |-> archive]
  BY DEF ImportBegin
<1>3. work' # None /\ work'.from = archive
  BY <1>2 DEF Blank
<1>4. Importer \notin Turns /\ Importer # None
  BY DEF Named
<1>5. QED BY <1>1, <1>3, <1>4 DEF SessionTyped

LEMMA ImportEndTyped ==
  ASSUME Named, Blank, Kept, SessionTyped, ImportEnd
  PROVE  SessionTyped'
<1> DEFINE s == work.into
<1> DEFINE a == work.from
<1> DEFINE moved == Rewritten(a.doc, a.id, s)
<1> DEFINE doc == [moved EXCEPT !.state = "ready", !.active = None]
<1>1. /\ mutex = Importer /\ mutex' = None /\ work' = None
      /\ UNCHANGED <<phase, input, reply, archive>>
  BY DEF ImportEnd
<1>2. s \in Sessions /\ Good(a.doc)
  BY <1>1 DEF Kept, Held
<1>3. doc.active = None
  <2>1. ASSUME NEW d, IsDoc(d), NEW ms, NEW n, n = [d EXCEPT !.messages = ms],
               NEW o, o = [n EXCEPT !.state = "ready", !.active = None]
        PROVE  o.active = None
    BY <2>1 DEF IsDoc
  <2>2. QED BY <1>2, <2>1 DEF Rewritten, Good
<1>4. None \notin Turns \cup {Importer}
  BY DEF Named
<1>5. CASE s \in dirs
  BY <1>1, <1>4, <1>5 DEF ImportEnd, SessionTyped
<1>6. CASE s \notin dirs
  <2>1. /\ dirs' = dirs \cup {s}
        /\ files' = [files EXCEPT ![s] = a.files]
        /\ disk' = [disk EXCEPT ![s] = doc]
    BY <1>6 DEF ImportEnd, Written
  <2> HIDE DEF doc
  <2>2. Media(a.files)
    BY <1>1 DEF SessionTyped
  <2>3. /\ files' = [z \in Sessions |-> files'[z]]
        /\ \A z \in Sessions : files'[z] = files[z] \/ files'[z] = a.files
    BY <1>2, <2>1 DEF SessionTyped
  <2>4. \A z \in Sessions : disk'[z] = disk[z] \/ disk'[z] = doc
    BY <1>2, <2>1 DEF Kept, Shaped
  <2>5. \A z \in Sessions : Media(files'[z]) /\ (disk'[z] # None => disk'[z].active \in Owner)
    BY <1>3, <2>2, <2>3, <2>4 DEF SessionTyped, Owner
  <2>6. dirs' \subseteq Sessions
    BY <1>2, <2>1 DEF SessionTyped
  <2>7. QED BY <1>1, <1>4, <2>3, <2>5, <2>6 DEF SessionTyped
<1>7. QED BY <1>5, <1>6

LEMMA CrashTyped ==
  ASSUME Named, Blank, Kept, SessionTyped, Crash
  PROVE  SessionTyped'
BY DEF Crash, SessionTyped, Named

LEMMA TypedInit == Named /\ SessionInit => SessionTyped
<1> SUFFICES ASSUME Named, SessionInit PROVE SessionTyped
  OBVIOUS
<1>1. None \notin Turns \cup {Importer}
  BY DEF Named
<1>2. \A s \in Sessions : Media(files[s]) /\ disk[s] = None
  BY DEF SessionInit, Media
<1>3. archive # None => Media(archive.files)
  <2>1. ASSUME NEW s PROVE Media(Foreign(s).files)
    <3>1. Foreign(s).files = [p \in {Upload(0, n) : n \in Names} |-> Guest]
      BY DEF Foreign
    <3>2. QED BY <3>1 DEF Media, Contents
  <2>2. archive = None \/ \E s \in Sessions : archive = Foreign(s)
    BY DEF SessionInit
  <2>3. QED BY <2>1, <2>2
<1>4. QED BY <1>1, <1>2, <1>3 DEF SessionInit, SessionTyped

LEMMA NextTyped ==
  Named /\ Blank /\ Kept /\ SessionTyped /\ [SessionNext]_sessionVars => SessionTyped'
<1> SUFFICES ASSUME Named, Blank, Kept, SessionTyped, [SessionNext]_sessionVars
             PROVE  SessionTyped'
  OBVIOUS
<1>1. CASE UNCHANGED sessionVars
  BY <1>1 DEF sessionVars, SessionTyped
<1>2. ASSUME NEW t \in Turns, Receive(t) \/ Lock(t) \/ TurnStep(t) PROVE SessionTyped'
  BY <1>2, ReceivesTyped, LocksTyped, TransitionsTyped, QuietTyped, SavesTyped, ConcludesTyped,
     LooksTyped, SynthesizesTyped, AppendsTyped, StoresTyped, LeavesTyped, Zenon DEF TurnStep
<1>3. ASSUME NEW s \in Sessions, Export(s) PROVE SessionTyped'
  BY <1>3, ExportsTyped
<1>4. CASE ImportBegin \/ ImportEnd \/ Crash
  BY <1>4, ImportBeginTyped, ImportEndTyped, CrashTyped
<1>5. QED BY <1>1, <1>2, <1>3, <1>4, Zenon DEF SessionNext

\* The session mutex is held exactly while a turn or an import has a session in
\* memory, and whatever is stored was brought by a turn (src/src/server.cpp:3022-3500).
LEMMA SessionsTyped ==
  ASSUME Named, Blank PROVE SessionSpec => []SessionTypeOK
<1>1. Kept /\ SessionTyped => SessionTypeOK
  BY DEF Kept, Shaped, SessionTyped, SessionTypeOK, Docs, Media, Owner
<1>2. QED BY KeptInit, NextKeeps, TypedInit, NextTyped, <1>1, PTL DEF SessionSpec

=============================================================================
