---------------------------- MODULE AgentSession ----------------------------
(***************************************************************************)
(* The agent sessions of mica-server: turns of /v1/agent/chat and          *)
(* /v1/agent/chat/stream, and the export and import of a session.  A       *)
(* session is a directory with session.json, replaced whole by a rename,   *)
(* and the media of its turns; one mutex serialises whatever reads or      *)
(* writes it.  A turn that streams throws at any event its client does not *)
(* take, and the server may die between any two writes.                    *)
(***************************************************************************)
EXTENDS Naturals, Sequences

CONSTANTS Turns,     \* agent requests; a turn also stands for what it uploads
          Importer,  \* the request that imports an archive
          Guest,     \* a turn of a session that another server exported
          Sessions,
          Names,     \* names of attachments, as safe_component leaves them
          Documents, \* those that name a PDF; the others are images and videos
          Inputs,    \* what a turn may be sent
          MaxPages,  \* max_document_pages_per_call
          MaxSteps,  \* max_agent_steps
          None

VARIABLES disk,     \* session.json of each session, None when there is none
          dirs,     \* the session directories that exist
          files,    \* the media of each session, with the turn they belong to
          mutex,    \* who holds session_mutex
          work,     \* the session and turn in the memory of the holder
          phase,    \* where each turn is
          input,    \* what each turn was sent
          reply,    \* what its client has been told
          archive   \* the last archive exported, or brought from elsewhere

sessionVars == <<disk, dirs, files, mutex, work, phase, input, reply, archive>>

Contents == Turns \cup {Guest}

\* A file of a session.  Uploads are numbered from 0 in every turn; the pages
\* of a document are kept under its name; reply n stands beside session.json.
Path == [dir: {"uploads", "rendered", "reply"}, index: Nat,
         name: Names \cup {"voice", "none"}, page: Nat]
Upload(i, n) == [dir |-> "uploads", index |-> i, name |-> n, page |-> 0]
Page(n, k)   == [dir |-> "rendered", index |-> 0, name |-> n, page |-> k]
Reply(i)     == [dir |-> "reply", index |-> i, name |-> "none", page |-> 0]

\* A turn has at most one attachment and one voice note; pages is the length
\* of its document.
Input == [session: Sessions, streams: BOOLEAN, voice: BOOLEAN,
          file: Names \cup {"none"}, pages: 1..MaxPages]

Attached(t) == input[t].file # "none"
\* The form's files in order: the attachment, then the voice note.
AttachmentPath(t) == Upload(0, input[t].file)
VoicePath(t) == Upload(IF Attached(t) THEN 1 ELSE 0, "voice")
UserMedia(t) == (IF input[t].voice THEN {VoicePath(t)} ELSE {})
                  \cup (IF Attached(t) THEN {AttachmentPath(t)} ELSE {})

Located(s, ps) == [home: {s}, file: ps]
NewSession == [state |-> "ready", turns |-> <<>>, messages |-> <<>>,
               talk |-> <<>>, active |-> None]

\* session.json of a session with one finished turn, exported elsewhere.
Foreign(s) ==
  [id |-> s,
   files |-> [p \in {Upload(0, n) : n \in Names} |-> Guest],
   doc |-> [NewSession EXCEPT
              !.turns = <<Guest>>, !.talk = <<Guest>>,
              !.messages = <<[by |-> Guest, role |-> "user",
                              media |-> Located(s, {Upload(0, n) : n \in Names})],
                             [by |-> Guest, role |-> "assistant", media |-> {}]>>]]

\* write_json_atomic: a new file beside it, renamed over it.
Written(s, doc) == [disk EXCEPT ![s] = doc]

Put(f, ps, v) == [p \in DOMAIN f \cup ps |-> IF p \in ps THEN v ELSE f[p]]

Home(t) == input[t].session

SessionInit ==
  /\ disk = [s \in Sessions |-> None]
  /\ dirs = {}
  /\ files = [s \in Sessions |-> <<>>]
  /\ mutex = None
  /\ work = None
  /\ phase = [t \in Turns |-> "idle"]
  /\ input = [t \in Turns |-> None]
  /\ reply = [t \in Turns |-> "none"]
  /\ archive \in {None} \cup {Foreign(s) : s \in Sessions}

-----------------------------------------------------------------------------
(* Steps of a turn                                                         *)

At(t, p) == phase[t] = p
Goto(t, p) == phase' = [phase EXCEPT ![t] = p]

\* transition: session.json with the new state and the turn, then the event,
\* which throws when the client of a streaming turn has gone.
Transition(t, state, next) ==
  LET doc == [work.doc EXCEPT !.state = state, !.active = t]
  IN /\ work' = [work EXCEPT !.doc = doc]
     /\ disk' = Written(Home(t), doc)
     /\ \/ Goto(t, next)
        \/ input[t].streams /\ Goto(t, "failing")

\* A request that is not multipart, selects no workload, names a session with
\* other characters or comes before startup has ended changes nothing.
\* Otherwise its directories are created, before the mutex is taken.
Receive(t) ==
  /\ At(t, "idle")
  /\ \/ /\ \E i \in Inputs : input' = [input EXCEPT ![t] = i] /\ dirs' = dirs \cup {i.session}
        /\ Goto(t, "locking")
        /\ UNCHANGED reply
     \/ /\ reply' = [reply EXCEPT ![t] = "error"]
        /\ Goto(t, "ended")
        /\ UNCHANGED <<input, dirs>>
  /\ UNCHANGED <<disk, files, mutex, work, archive>>
LoadSession(s) == IF disk[s] = None THEN NewSession ELSE disk[s]

Lock(t) ==
  /\ At(t, "locking")
  /\ mutex = None
  /\ mutex' = t
  /\ work' = [doc |-> LoadSession(Home(t)), seen |-> {}, called |-> ~Attached(t),
              step |-> 0, audio |-> {}]
  /\ Goto(t, "receiving")
  /\ UNCHANGED <<disk, dirs, files, input, reply, archive>>

ReceiveInput(t) ==
  /\ At(t, "receiving")
  /\ Transition(t, "receiving_input", "saving")
  /\ UNCHANGED <<dirs, files, mutex, input, reply, archive>>

\* Files are written one by one until the combined size exceeds the limit; the
\* limits on prompts and the transcript of a reference voice come after them.
SaveUploads(t) ==
  /\ At(t, "saving")
  /\ \/ /\ files' = [files EXCEPT ![Home(t)] = Put(@, UserMedia(t), t)]
        /\ Goto(t, IF input[t].voice THEN "hearing" ELSE "prepared")
     \/ /\ \E ps \in SUBSET UserMedia(t) :
             files' = [files EXCEPT ![Home(t)] = Put(@, ps, t)]
        /\ Goto(t, "failing")
  /\ UNCHANGED <<disk, dirs, mutex, work, input, reply, archive>>

Hear(t) ==
  /\ At(t, "hearing")
  /\ Transition(t, "asr_transcribing", "transcribing")
  /\ UNCHANGED <<dirs, files, mutex, input, reply, archive>>

Transcribe(t) ==
  /\ At(t, "transcribing")
  /\ Goto(t, "prepared")
  /\ UNCHANGED <<disk, dirs, files, mutex, work, input, reply, archive>>

Prepare(t) ==
  /\ At(t, "prepared")
  /\ Transition(t, "temporary_files_ready", "planning")
  /\ UNCHANGED <<dirs, files, mutex, input, reply, archive>>

\* The head of the loop.  A streaming turn whose media have been inspected
\* streams its answer; any other asks for a completion that may call the tool.
Plan(t) ==
  /\ At(t, "planning")
  /\ work.step < MaxSteps
  /\ Transition(t, "agent_planning",
                IF input[t].streams /\ work.called THEN "final" ELSE "asking")
  /\ UNCHANGED <<dirs, files, mutex, input, reply, archive>>

StepLimit(t) ==
  /\ At(t, "planning")
  /\ work.step >= MaxSteps
  /\ Goto(t, "failing")
  /\ UNCHANGED <<disk, dirs, files, mutex, work, input, reply, archive>>

StreamAnswer(t) ==
  /\ At(t, "final")
  /\ Transition(t, "llm_final", "answered")
  /\ UNCHANGED <<dirs, files, mutex, input, reply, archive>>

\* The completion calls the tool, or is the answer.  A turn without attachments
\* has no path that a call of the tool could name.
AskTool(t) ==
  /\ At(t, "asking")
  /\ Transition(t, "vlm_tool_running", IF Attached(t) THEN "looking" ELSE "failing")
  /\ UNCHANGED <<dirs, files, mutex, input, reply, archive>>

Answer(t) ==
  /\ At(t, "asking")
  /\ Goto(t, "answered")
  /\ UNCHANGED <<disk, dirs, files, mutex, work, input, reply, archive>>

\* render_pdf_pages writes the pages of this document, then lists the folder.
PagesOf(f, n) == {p \in DOMAIN f : p.dir = "rendered" /\ p.name = n}
Rendered(t) ==
  IF input[t].file \in Documents
  THEN Put(files[Home(t)], {Page(input[t].file, k) : k \in 1..input[t].pages}, t)
  ELSE files[Home(t)]

Look(t) ==
  LET now == Rendered(t)
      read == IF input[t].file \in Documents THEN PagesOf(now, input[t].file)
              ELSE {AttachmentPath(t)}
  IN /\ At(t, "looking")
     /\ files' = [files EXCEPT ![Home(t)] = now]
     /\ work' = [work EXCEPT !.seen = @ \cup {now[p] : p \in read}, !.called = TRUE,
                             !.step = @ + 1]
     /\ Goto(t, "planning")
     /\ UNCHANGED <<disk, dirs, mutex, input, reply, archive>>

\* After the loop.  A turn that does not stream enters llm_final now; one with
\* a voice note is spoken unless speech_reply is false.
Conclude(t) ==
  /\ At(t, "answered")
  /\ \E next \in {"persisting"} \cup (IF input[t].voice THEN {"speaking"} ELSE {}) :
       IF input[t].streams THEN Goto(t, next) /\ UNCHANGED <<disk, work>>
       ELSE Transition(t, "llm_final", next)
  /\ UNCHANGED <<dirs, files, mutex, input, reply, archive>>

Speak(t) ==
  /\ At(t, "speaking")
  /\ Transition(t, "tts_generating", "synthesizing")
  /\ UNCHANGED <<dirs, files, mutex, input, reply, archive>>

\* assistant-<n>.wav, n the number of turns, beside session.json; then, of a
\* stream, an event.
Synthesize(t) ==
  LET wav == Reply(Len(work.doc.turns))
  IN /\ At(t, "synthesizing")
     /\ files' = [files EXCEPT ![Home(t)] = Put(@, {wav}, t)]
     /\ work' = [work EXCEPT !.audio = {wav}]
     /\ \/ Goto(t, "persisting")
        \/ input[t].streams /\ Goto(t, "failing")
     /\ UNCHANGED <<disk, dirs, mutex, input, reply, archive>>

\* The two messages and the conversation join the session in memory; then
\* comes an event, which may throw.
AppendMessages(t) ==
  LET user == [by |-> t, role |-> "user", media |-> Located(Home(t), UserMedia(t))]
      assistant == [by |-> t, role |-> "assistant",
                    media |-> Located(Home(t), work.audio)]
  IN /\ At(t, "persisting")
     /\ work' = [work EXCEPT !.doc.messages = @ \o <<user, assistant>>,
                             !.doc.talk = @ \o <<t>>]
     /\ \/ Goto(t, "storing")
        \/ input[t].streams /\ Goto(t, "failing")
     /\ UNCHANGED <<disk, dirs, files, mutex, input, reply, archive>>

\* The turn is recorded and session.json written; then comes the last event.
Store(t) ==
  LET doc == [work.doc EXCEPT !.turns = @ \o <<t>>, !.state = "ready", !.active = None]
  IN /\ At(t, "storing")
     /\ work' = [work EXCEPT !.doc = doc]
     /\ disk' = Written(Home(t), doc)
     /\ \/ Goto(t, "stored")
        \/ input[t].streams /\ Goto(t, "failing")
     /\ UNCHANGED <<dirs, files, mutex, input, reply, archive>>

\* The result is returned; the done event of a stream may be lost.
Finish(t) ==
  /\ At(t, "stored")
  /\ mutex' = None
  /\ work' = None
  /\ Goto(t, "ended")
  /\ \/ reply' = [reply EXCEPT ![t] = "result"]
     \/ input[t].streams /\ reply' = [reply EXCEPT ![t] = "lost"]
  /\ UNCHANGED <<disk, dirs, files, input, archive>>

\* Whatever calls a model, reads a file or sends an event may throw.
Throwing == {"transcribing", "planning", "final", "asking", "looking",
             "answered", "speaking", "synthesizing"}
Throw(t) ==
  /\ phase[t] \in Throwing
  /\ Goto(t, "failing")
  /\ UNCHANGED <<disk, dirs, files, mutex, work, input, reply, archive>>

\* Mutant: the handler returns without letting go of the mutex.
FailHolding(t) ==
  /\ At(t, "failing")
  /\ disk' = Written(Home(t), [work.doc EXCEPT !.state = "failed", !.active = t])
  /\ Goto(t, "ended")
  /\ reply' = [reply EXCEPT ![t] = "error"]
  /\ UNCHANGED <<dirs, files, mutex, work, input, archive>>

\* Mutant: the failure is recorded in a new document.
FailAfresh(t) ==
  /\ At(t, "failing")
  /\ disk' = Written(Home(t), [NewSession EXCEPT !.state = "failed", !.active = t])
  /\ mutex' = None
  /\ work' = None
  /\ Goto(t, "ended")
  /\ reply' = [reply EXCEPT ![t] = "error"]
  /\ UNCHANGED <<dirs, files, input, archive>>

\* The handler at the end: the session in memory, marked failed.
Fail(t) ==
  /\ At(t, "failing")
  /\ disk' = Written(Home(t), [work.doc EXCEPT !.state = "failed", !.active = t])
  /\ mutex' = None
  /\ work' = None
  /\ Goto(t, "ended")
  /\ reply' = [reply EXCEPT ![t] = "error"]
  /\ UNCHANGED <<dirs, files, input, archive>>

-----------------------------------------------------------------------------
(* Export and import: each takes the mutex                                 *)

\* What safe_session_archive_name admits, beside session.json and the manifest.
Archived == {"uploads", "rendered", "audio"}

\* create_store_zip and read_store_zip: an archive that is damaged, or names a
\* file outside these directories, is refused as a whole.
Packed(s) ==
  [id |-> s, doc |-> disk[s],
   files |-> LET kept == {p \in DOMAIN files[s] : p.dir \in Archived}
             IN [p \in kept |-> files[s][p]]]
Unpacks(a) == \A p \in DOMAIN a.files : p.dir \in Archived

\* Nothing changes when a file is too large or a link: the request fails.
Export(s) ==
  /\ mutex = None
  /\ disk[s] # None
  /\ archive = None    \* bound: one archive
  /\ archive' = Packed(s)
  /\ UNCHANGED <<disk, dirs, files, mutex, work, phase, input, reply>>

\* The archive is checked and unpacked beside the sessions, under the name it
\* had or, if that exists, under a new one.
ImportBegin ==
  /\ mutex = None
  /\ archive # None
  /\ Unpacks(archive)
  /\ mutex' = Importer
  /\ \E s \in Sessions :
       /\ IF archive.id \in dirs THEN s \notin dirs ELSE s = archive.id
       /\ work' = [into |-> s, from |-> archive]
  /\ UNCHANGED <<disk, dirs, files, phase, input, reply, archive>>

\* Mutant: the media keep the name the session had where it was exported.
RewrittenNot(doc, from, to) == doc

\* rewrite_json_path_prefix
Moved(m, from, to) ==
  [m EXCEPT !.media = {[p EXCEPT !.home = IF p.home = from THEN to ELSE p.home] : p \in m.media}]
Rewritten(doc, from, to) ==
  [doc EXCEPT !.messages = [i \in DOMAIN doc.messages |-> Moved(doc.messages[i], from, to)]]

\* The rename into place fails when a turn has created the directory since.
ImportEnd ==
  LET s == work.into
      a == work.from
  IN /\ mutex = Importer
     /\ mutex' = None
     /\ work' = None
     /\ IF s \in dirs
        THEN UNCHANGED <<disk, dirs, files>>
        ELSE /\ dirs' = dirs \cup {s}
             /\ files' = [files EXCEPT ![s] = a.files]
             /\ disk' = Written(s, [Rewritten(a.doc, a.id, s) EXCEPT
                                      !.state = "ready", !.active = None])
     /\ UNCHANGED <<phase, input, reply, archive>>

\* The server dies and is started again: files stay, requests are gone.
Crash ==
  /\ mutex # None \/ \E t \in Turns : At(t, "locking")
  /\ mutex' = None
  /\ work' = None
  /\ phase' = [t \in Turns |-> IF At(t, "idle") THEN "idle" ELSE "ended"]
  /\ UNCHANGED <<disk, dirs, files, input, reply, archive>>

-----------------------------------------------------------------------------
TurnStep(t) ==
  \/ ReceiveInput(t) \/ SaveUploads(t) \/ Hear(t) \/ Transcribe(t) \/ Prepare(t)
  \/ Plan(t) \/ StepLimit(t) \/ StreamAnswer(t) \/ AskTool(t) \/ Answer(t) \/ Look(t)
  \/ Conclude(t) \/ Speak(t) \/ Synthesize(t) \/ AppendMessages(t) \/ Store(t)
  \/ Finish(t) \/ Throw(t) \/ Fail(t)

SessionNext ==
  \/ \E t \in Turns : Receive(t) \/ Lock(t) \/ TurnStep(t)
  \/ \E s \in Sessions : Export(s)
  \/ ImportBegin \/ ImportEnd \/ Crash

SessionSpec == SessionInit /\ [][SessionNext]_sessionVars

\* A turn that holds the mutex goes on: model calls return or time out.
SessionFairness == \A t \in Turns : WF_sessionVars(TurnStep(t))

-----------------------------------------------------------------------------
(* Properties                                                              *)

Docs == {d \in {disk[s] : s \in Sessions} : d # None}
InSeq(x, q) == \E i \in DOMAIN q : q[i] = x

\* Every variable has the shape the code gives it.
SessionTypeOK ==
  /\ DOMAIN disk = Sessions /\ DOMAIN files = Sessions
  /\ dirs \subseteq Sessions
  /\ mutex \in Turns \cup {Importer, None}
  /\ (mutex = None) = (work = None)
  /\ \A s \in Sessions : files[s] \in [DOMAIN files[s] -> Contents]
  /\ \A d \in Docs : d.active \in Turns \cup {None}
  /\ input \in [Turns -> Inputs \cup {None}]
  /\ reply \in [Turns -> {"none", "result", "lost", "error"}]

\* No conversation is lost or torn: a turn whose result was returned is among
\* the turns of its session for ever (the mutex, the whole-file rename and the
\* handler at the end keep every other turn and every crash from undoing it),
\* and the stored messages are the pairs of the conversation that the next
\* turn shows its model, in the same order, the turns being part of both.
HistoryKept ==
  /\ \A t \in Turns : reply[t] = "result" => InSeq(t, disk[Home(t)].turns)
  /\ \A d \in Docs :
       /\ Len(d.messages) = 2 * Len(d.talk)
       /\ \A i \in DOMAIN d.talk : /\ d.messages[2 * i - 1].by = d.talk[i]
                                  /\ d.messages[2 * i].by = d.talk[i]
       /\ \A i \in DOMAIN d.turns : InSeq(d.turns[i], d.talk)

\* The turns that were sent something, and those of a session that were run in
\* it: the others came with an import.
Received == {t \in Turns : input[t] # None}
Here(u, s) == u \in Received /\ Home(u) = s

\* Whose file may lie at p, which message i of document d names: its own turn's,
\* or that of a later turn.  Uploads are numbered from 0 in every turn, so a later
\* turn that is sent a file of that name at that place replaces it.  Replies are
\* numbered by the turns recorded before them, so one can be replaced only if
\* its turn lost its client before it was recorded.
Keeps(d, i, p, u) ==
  \/ u = d.messages[i].by
  \/ /\ \A j \in 1..i : d.messages[j].by # u
     /\ \/ u \in Received /\ p \in UserMedia(u)
        \/ p.dir = "reply" /\ ~InSeq(d.messages[i].by, d.turns)

\* The media route answers with this file; it serves none outside the session's
\* own directory.
Served(s, i, m) ==
  /\ m.home = s /\ m.file \in DOMAIN files[s]
  /\ Keeps(disk[s], i, m.file, files[s][m.file])

\* What a stored message names lies in the session that holds it, and the media
\* route serves for it what the user sent with that message and what was spoken
\* in reply, and never the file of an earlier turn: through turns that fail half
\* way, crashes, an export and an import under another name.  Two things the
\* code does are left out: a later turn may replace a file (Keeps), and spoken
\* replies stay behind when a session is exported, so that those of an imported
\* one are not found.
MediaResolves ==
  \A s \in Sessions : disk[s] # None =>
    \A i \in DOMAIN disk[s].messages : \A m \in disk[s].messages[i].media :
      /\ m.home = s
      /\ m.file.dir = "uploads" \/ Here(disk[s].messages[i].by, s) => Served(s, i, m)

\* A turn's media model sees nothing but what was sent with that turn.
ObservesOwnTurn == mutex \in Turns => work.seen \subseteq {mutex}

\* Whatever the models answer and whatever throws, a turn gives the mutex back,
\* which all other sessions wait for.
TurnEnds == \A t \in Turns : (mutex = t) ~> (mutex # t)
=============================================================================
