----------------------------- MODULE SshSession -----------------------------
(***************************************************************************)
(* One remote tab of the file manager: the interface thread with the view  *)
(* (src/src/ui/ssh_view.c), the worker thread it starts for a connection,  *)
(* the client the worker drives (src/src/platform/ssh_client.c) and the    *)
(* far side as the client sees it.                                         *)
(*                                                                         *)
(* The two threads share the RemoteView, two auto-reset events (request,   *)
(* input), a manual-reset cancel event and the two terminal buffers; the   *)
(* worker answers with posted messages.  Between two actions of one thread *)
(* any action of the other may happen; the interface thread is split where *)
(* it waits (a dialog, the join of the worker) and where the new worker    *)
(* can already run (CreateThread before the request is written).           *)
(*                                                                         *)
(* Requests are kept by kind: connect, list, write (every job from         *)
(* J_MKDIR to J_MOVE) and terminal.  A command is a unit of input.         *)
(***************************************************************************)
EXTENDS Integers, Sequences

CONSTANTS
    Command,     \* commands the user may submit or type, each once
    NoCommand,   \* pending_command is empty
    InputCap,    \* commands terminal_input holds
    OutputCap,   \* blocks terminal_output holds
    MaxOutput,   \* blocks the far side produces
    MaxConnects, \* times ssh_view_connect is called
    MaxActs,     \* operations of the user
    MaxFaults    \* failing calls and breaking connections

ASSUME SessionConstants ==
    /\ NoCommand \notin Command
    /\ InputCap \in Nat \ {0} /\ OutputCap \in Nat \ {0}
    /\ MaxOutput \in Nat /\ MaxConnects \in Nat /\ MaxActs \in Nat /\ MaxFaults \in Nat

VARIABLES
    v,      \* the RemoteView
    ui,     \* what the interface thread is in: its loop, a dialog, a join
    w,      \* the worker thread: its place, its client, its buffers
    msgs,   \* messages posted to the view
    link,   \* the far side of the current connection
    pins,   \* the host's fingerprint is stored for this user
    asked,  \* history: the connection each command was submitted in, 0 = not yet
    sent,   \* history: the commands given to a shell, each with its connection
    ran,    \* history: how often each remote write was begun
    threads, acts, faults

vars == <<v, ui, w, msgs, link, pins, asked, sent, ran, threads, acts, faults>>
history == <<asked, sent, ran>>

Job == {"connect", "list", "write", "terminal"}
View == [thread : BOOLEAN, busy : BOOLEAN, connected : BOOLEAN,
         terminal_mode : BOOLEAN, terminal_opened : BOOLEAN, terminal_running : BOOLEAN,
         job : Job, req : Nat, code : 0 .. 3, pinned : BOOLEAN, stopping : BOOLEAN,
         event : BOOLEAN, cancel : BOOLEAN, input_event : BOOLEAN,
         pending_command : Command \cup {NoCommand}, input : Seq(Command),
         output : 0 .. OutputCap, output_posted : BOOLEAN]
Dialog == {"login", "trust", "failed"}
Place == {"gone", "wait", "run", "host_key", "auth", "copy", "post", "read"}
Thread == [pc : Place, req : Nat, client : Nat, terminal : BOOLEAN, pending : Seq(Command),
           activity : BOOLEAN, room : 0 .. OutputCap]
Notice == [kind : {"DONE", "OUTPUT", "ENDED"}, connected : BOOLEAN, thread : Nat]
FarSide == [avail : Nat, net : BOOLEAN, dead : BOOLEAN, eof : BOOLEAN, made : 0 .. MaxOutput]

Idle == [pc |-> "gone", req |-> 0, client |-> 0, terminal |-> FALSE, pending |-> <<>>,
         activity |-> FALSE, room |-> 0]
Quiet == [avail |-> 0, net |-> FALSE, dead |-> FALSE, eof |-> FALSE, made |-> 0]

Init ==
    /\ v = [thread |-> FALSE, busy |-> FALSE, connected |-> FALSE,
            terminal_mode |-> FALSE, terminal_opened |-> FALSE, terminal_running |-> FALSE,
            job |-> "connect", req |-> 0, code |-> 0, pinned |-> FALSE, stopping |-> FALSE,
            event |-> FALSE, cancel |-> FALSE, input_event |-> FALSE,
            pending_command |-> NoCommand, input |-> <<>>, output |-> 0, output_posted |-> FALSE]
    /\ ui = "loop" /\ w = Idle /\ msgs = <<>> /\ link = Quiet
    /\ pins \in BOOLEAN
    /\ asked = [c \in Command |-> 0] /\ sent = <<>> /\ ran = <<>>
    /\ threads = 0 /\ acts = 0 /\ faults = 0

Fault == faults < MaxFaults /\ faults' = faults + 1
Acts  == acts < MaxActs /\ acts' = acts + 1

(***************************************************************************)
(* The view's own operations, on a RemoteView u.                           *)
(***************************************************************************)
Submit(u, job) ==
    IF u.busy \/ (~u.connected /\ job # "connect") THEN u
    ELSE [u EXCEPT !.cancel = FALSE, !.job = job, !.req = @ + 1, !.busy = TRUE, !.event = TRUE]

Send(u, c) ==
    IF u.connected /\ u.terminal_running /\ Len(u.input) < InputCap
    THEN [u EXCEPT !.input = Append(@, c), !.input_event = TRUE]
    ELSE u

DrainSilent(u) == [u EXCEPT !.output = 0, !.output_posted = FALSE]
Drain(u) ==
    [u EXCEPT !.output = 0, !.output_posted = FALSE, !.input_event = @ \/ u.output > 0]

TerminalMode(u) ==
    LET shown == [u EXCEPT !.terminal_mode = TRUE] IN
    IF u.terminal_opened THEN shown ELSE Submit(shown, "terminal")

FilesMode(u) == Submit([u EXCEPT !.terminal_mode = FALSE], "list")

StoppedTyped(u) ==
    [Drain(u) EXCEPT !.thread = FALSE, !.stopping = FALSE, !.busy = FALSE, !.connected = FALSE,
                     !.terminal_running = FALSE, !.code = 0, !.pending_command = NoCommand]

\* stop_worker after the join: nothing of the old connection is left.
Stopped(u) ==
    [Drain(u) EXCEPT !.thread = FALSE, !.stopping = FALSE, !.busy = FALSE, !.connected = FALSE,
                     !.terminal_running = FALSE, !.code = 0, !.pending_command = NoCommand,
                     !.input = <<>>]

\* The end of finish, behind its dialogs: what the answer sets off.
Finished(u) ==
    LET ok    == u.code = 0
        open  == IF ok /\ u.job = "terminal"
                 THEN [u EXCEPT !.code = 0, !.terminal_opened = TRUE, !.terminal_running = TRUE]
                 ELSE [u EXCEPT !.code = 0]
        typed == IF ok /\ u.job = "terminal" /\ u.pending_command # NoCommand
                 THEN [Send(open, u.pending_command) EXCEPT !.pending_command = NoCommand]
                 ELSE IF ok THEN open ELSE [open EXCEPT !.pending_command = NoCommand]
        mode  == IF typed.connected /\ typed.terminal_mode /\ ~typed.terminal_opened
                    /\ u.job # "terminal"
                 THEN TerminalMode(typed) ELSE typed
    IN IF ok /\ u.job = "write" THEN Submit(mode, "list") ELSE mode

(***************************************************************************)
(* Connecting and disconnecting                                            *)
(***************************************************************************)
OpenLogin ==
    /\ ui = "loop" /\ ~v.busy /\ Acts /\ ui' = "login"
    /\ UNCHANGED <<v, w, msgs, link, pins, history, threads, faults>>

StopSilent(next) ==
    IF v.thread
    THEN v' = [v EXCEPT !.stopping = TRUE, !.cancel = TRUE] /\ ui' = next /\ UNCHANGED msgs
    ELSE v' = Stopped(v) /\ msgs' = <<>>
         /\ ui' = CASE next = "reconnect" -> "connect" [] next = "stop" -> "loop"
                    [] next = "close" -> "closed"

\* stop_worker up to the join; without a worker it is done at once.
Stop(next) ==
    IF v.thread
    THEN /\ v' = [v EXCEPT !.stopping = TRUE, !.cancel = TRUE, !.event = TRUE]
         /\ ui' = next /\ UNCHANGED msgs
    ELSE v' = Stopped(v) /\ msgs' = <<>>
         /\ ui' = CASE next = "reconnect" -> "connect" [] next = "stop" -> "loop"
                    [] next = "close" -> "closed"

Login ==
    /\ ui = "login" /\ threads < MaxConnects
    /\ IF v.busy THEN ui' = "loop" /\ UNCHANGED <<v, msgs>> ELSE Stop("reconnect")
    /\ UNCHANGED <<w, link, pins, history, threads, acts, faults>>

CancelLogin ==
    /\ ui = "login" /\ ui' = "loop"
    /\ UNCHANGED <<v, w, msgs, link, pins, history, threads, acts, faults>>

Disconnect ==
    /\ ui = "loop" /\ v.thread /\ Acts /\ Stop("stop")
    /\ UNCHANGED <<w, link, pins, history, threads, faults>>

Close ==
    /\ ui = "loop" /\ Acts /\ Stop("close")
    /\ UNCHANGED <<w, link, pins, history, threads, faults>>

LeftQueued(queue) == queue
Discarded(queue) == <<>>

\* The join returns: the worker left, its messages are taken out of the queue.
Joined ==
    /\ ui \in {"stop", "reconnect", "close"} /\ w.pc = "gone"
    /\ v' = Stopped(v) /\ msgs' = Discarded(msgs)
    /\ ui' = CASE ui = "reconnect" -> "connect" [] ui = "stop" -> "loop" [] ui = "close" -> "closed"
    /\ UNCHANGED <<w, link, pins, history, threads, acts, faults>>

\* ssh_view_connect: the stored pin is read and a worker is started; it runs
\* from here on, before the request is written.
StartWorker ==
    /\ ui = "connect"
    /\ v' = [v EXCEPT !.terminal_opened = FALSE, !.pinned = pins, !.thread = TRUE]
    /\ w' = [Idle EXCEPT !.pc = "wait"] /\ threads' = threads + 1 /\ ui' = "submit"
    /\ UNCHANGED <<msgs, link, pins, history, acts, faults>>

\* Four workers already, or CreateThread fails.
NoWorker ==
    /\ ui = "connect" /\ Fault /\ ui' = "loop"
    /\ v' = [v EXCEPT !.terminal_opened = FALSE, !.pinned = pins]
    /\ UNCHANGED <<w, msgs, link, pins, history, threads, acts>>

WriteRequest ==
    /\ ui = "submit" /\ v' = Submit(v, "connect") /\ ui' = "loop"
    /\ UNCHANGED <<w, msgs, link, pins, history, threads, acts, faults>>

(***************************************************************************)
(* Requests of the connected view                                          *)
(***************************************************************************)
Request ==
    /\ ui = "loop" /\ ~v.busy /\ v.connected /\ Acts
    /\ \/ v' = Submit(v, "list")
       \/ ~v.terminal_mode /\ v' = Submit(v, "write")
    /\ UNCHANGED <<ui, w, msgs, link, pins, history, threads, faults>>

Switch ==
    /\ ui = "loop" /\ Acts
    /\ v' = IF v.terminal_mode THEN FilesMode(v) ELSE TerminalMode(v)
    /\ UNCHANGED <<ui, w, msgs, link, pins, history, threads, faults>>

\* ssh_view_run: into the running shell, or kept while one is started for it.
Run(c) ==
    LET waiting == TerminalMode([v EXCEPT !.pending_command = c])
        kept    == waiting.busy /\ waiting.job = "terminal"
        typed   == Send([v EXCEPT !.terminal_mode = TRUE], c)
    IN
    /\ ui = "loop" /\ ~v.busy /\ v.connected /\ asked[c] = 0 /\ Acts
    /\ v' = IF v.terminal_running THEN typed
            ELSE IF kept THEN waiting
            ELSE [waiting EXCEPT !.pending_command = NoCommand]
    /\ asked' = [asked EXCEPT ![c] = IF (IF v.terminal_running THEN typed.input # v.input ELSE kept)
                                     THEN threads ELSE 0]
    /\ UNCHANGED <<ui, w, msgs, link, pins, sent, ran, threads, faults>>

\* Keys and pastes reach the shell while another request is busy, too.
Type(c) ==
    /\ ui = "loop" /\ v.terminal_mode /\ v.connected /\ v.terminal_running
    /\ asked[c] = 0 /\ Len(v.input) < InputCap /\ Acts
    /\ v' = Send(v, c) /\ asked' = [asked EXCEPT ![c] = threads]
    /\ UNCHANGED <<ui, w, msgs, link, pins, sent, ran, threads, faults>>

Cancel ==
    /\ ui = "loop" /\ v.busy /\ Acts
    /\ v' = [v EXCEPT !.pending_command = NoCommand, !.cancel = TRUE]
    /\ UNCHANGED <<ui, w, msgs, link, pins, history, threads, faults>>

(***************************************************************************)
(* Messages of the worker                                                  *)
(***************************************************************************)
Message(kinds) == msgs # <<>> /\ Head(msgs).kind \in kinds /\ msgs' = Tail(msgs)

\* finish.  While one of its message boxes is open (339, 349) the view handles no
\* further message: a second DONE dispatched by the box (459), and closing the
\* view behind it, are left out.
Done ==
    /\ ui = "loop" /\ Message({"DONE"})
    /\ LET connected == Head(msgs).connected
           u == [v EXCEPT !.busy = FALSE, !.connected = connected,
                          !.terminal_running = @ /\ connected]
       IN \/ v.code = 2 /\ v' = u /\ ui' = "trust"
          \/ v.code \in {1, 3} /\ v.job = "connect" /\ ~(v.code = 3 /\ v.cancel)
             /\ v' = u /\ ui' = "failed"
          \/ v.code # 2 /\ (v.code = 0 \/ v.job # "connect" \/ (v.code = 3 /\ v.cancel))
             /\ v' = Finished(u) /\ UNCHANGED ui
    /\ UNCHANGED <<w, link, pins, history, threads, acts, faults>>

CloseFailed ==
    /\ ui = "failed" /\ v' = Finished(v) /\ ui' = "loop"
    /\ UNCHANGED <<w, msgs, link, pins, history, threads, acts, faults>>

\* The fingerprint is accepted and stored, and the same worker connects again.
Trust ==
    /\ ui = "trust" /\ ui' = "loop" /\ pins' = TRUE
    /\ v' = Submit([v EXCEPT !.pinned = TRUE, !.code = 0], "connect")
    /\ UNCHANGED <<w, msgs, link, history, threads, acts, faults>>

\* Refused, or the pin could not be stored.
Distrust ==
    /\ ui = "trust" /\ ui' = "loop" /\ v' = Finished(v)
    /\ UNCHANGED <<w, msgs, link, pins, history, threads, acts, faults>>

Dispatching == ui \in {"loop"} \cup Dialog

Output ==
    /\ Dispatching /\ Message({"OUTPUT"}) /\ v' = Drain(v)
    /\ UNCHANGED <<ui, w, link, pins, history, threads, acts, faults>>

Ended ==
    /\ Dispatching /\ Message({"ENDED"})
    /\ v' = [Drain(v) EXCEPT !.terminal_running = FALSE, !.connected = FALSE]
    /\ UNCHANGED <<ui, w, link, pins, history, threads, acts, faults>>

(***************************************************************************)
(* The worker: remote_worker                                               *)
(***************************************************************************)
Post(m) == msgs' = Append(msgs, [m EXCEPT !.thread = threads])
Note(kind) == [kind |-> kind, connected |-> FALSE, thread |-> 0]

\* The client is closed and the terminal with it; the thread goes on.
Closed(x) == [x EXCEPT !.client = 0, !.terminal = FALSE]

Wake ==
    /\ w.pc = "wait" /\ v.event
    /\ v' = [v EXCEPT !.event = FALSE]
    /\ w' = IF v.stopping THEN Idle ELSE [w EXCEPT !.pc = "run", !.req = v.req]
    /\ UNCHANGED <<ui, msgs, link, pins, history, threads, acts, faults>>

\* A request fails: cancelled and timed out are code 3.
Fails(code) ==
    /\ code \in IF v.cancel THEN {3} ELSE {1, 3}
    /\ IF v.cancel \/ link.dead THEN UNCHANGED faults ELSE Fault

\* The answer of a request that reached the far side.
Answer(x, code, healthy) ==
    /\ v' = [v EXCEPT !.code = code]
    /\ w' = [IF code = 3 \/ (code # 0 /\ (~healthy \/ v.job = "terminal")) THEN Closed(x) ELSE x
             EXCEPT !.pc = "post"]

Connect ==
    /\ w.pc = "run" /\ v.job = "connect"
    /\ LET x == [Closed(w) EXCEPT !.pending = <<>>] IN
       \/ /\ ~v.cancel /\ w' = [x EXCEPT !.pc = "host_key"]
          /\ v' = [v EXCEPT !.code = 0] /\ UNCHANGED faults
       \/ \E code \in {1, 3} : Fails(code) /\ Answer(x, code, FALSE)
    /\ link' = Quiet
    /\ UNCHANGED <<ui, msgs, pins, history, threads, acts>>

\* Without a pin the connection ends here; a changed key is refused.
HostKey ==
    /\ w.pc = "host_key"
    /\ \/ ~v.pinned /\ Answer(w, 2, FALSE) /\ UNCHANGED faults
       \/ v.pinned /\ Fault /\ Answer(w, 1, FALSE)
       \/ v.pinned /\ w' = [w EXCEPT !.pc = "auth"] /\ UNCHANGED <<v, faults>>
    /\ UNCHANGED <<ui, msgs, link, pins, history, threads, acts>>

\* Authentication, SFTP, and the first listing, which may fail by itself.
Authenticate ==
    /\ w.pc = "auth"
    /\ LET x == [w EXCEPT !.client = threads] IN
       \/ Answer(x, 0, TRUE) /\ UNCHANGED faults
       \/ \E code \in {1, 3}, client \in {w, x}, healthy \in BOOLEAN :
              Fails(code) /\ Answer(client, code, healthy)
    /\ UNCHANGED <<ui, msgs, link, pins, history, threads, acts>>

Disconnected ==
    /\ w.pc = "run" /\ v.job # "connect" /\ w.client = 0
    /\ Answer(w, 1, FALSE)
    /\ UNCHANGED <<ui, msgs, link, pins, history, threads, acts, faults>>

List ==
    /\ w.pc = "run" /\ v.job = "list" /\ w.client # 0
    /\ \/ ~link.dead /\ Answer(w, 0, TRUE) /\ UNCHANGED faults
       \/ \E code \in {1, 3}, healthy \in BOOLEAN :
              (healthy => ~link.dead) /\ Fails(code) /\ Answer(w, code, healthy)
    /\ UNCHANGED <<ui, msgs, link, pins, history, threads, acts>>

\* A write is refused before it begins, or it reaches the far side.
BeginWrite ==
    /\ w.pc = "run" /\ v.job = "write" /\ w.client # 0
    /\ \/ /\ ~link.dead /\ w' = [w EXCEPT !.pc = "copy"] /\ v' = [v EXCEPT !.code = 0]
          /\ ran' = Append(ran, v.req) /\ UNCHANGED faults
       \/ \E code \in {1, 3}, healthy \in BOOLEAN :
              /\ (healthy => ~link.dead) /\ Fails(code) /\ Answer(w, code, healthy)
              /\ UNCHANGED ran
    /\ UNCHANGED <<ui, msgs, link, pins, asked, sent, threads, acts>>

EndWrite ==
    /\ w.pc = "copy"
    /\ \/ ~link.dead /\ Answer(w, 0, TRUE) /\ UNCHANGED faults
       \/ \E code \in {1, 3}, healthy \in BOOLEAN :
              (healthy => ~link.dead) /\ Fails(code) /\ Answer(w, code, healthy)
    /\ UNCHANGED <<ui, msgs, link, pins, history, threads, acts>>

\* A second terminal on one client is refused.
OpenTerminal ==
    /\ w.pc = "run" /\ v.job = "terminal" /\ w.client # 0
    /\ \/ /\ ~w.terminal /\ ~link.dead /\ UNCHANGED faults
          /\ Answer([w EXCEPT !.terminal = TRUE, !.activity = TRUE], 0, TRUE)
          /\ link' = [link EXCEPT !.net = FALSE, !.eof = FALSE]
       \/ /\ IF w.terminal THEN UNCHANGED faults /\ Answer(w, 1, TRUE)
             ELSE \E code \in {1, 3} : Fails(code) /\ Answer(w, code, FALSE)
          /\ UNCHANGED link
    /\ UNCHANGED <<ui, msgs, pins, history, threads, acts>>

\* DONE is posted; without it the thread ends and the view stays busy.
Reply ==
    /\ w.pc = "post"
    /\ IF v.stopping THEN w' = Idle /\ UNCHANGED <<msgs, faults>>
       ELSE \/ /\ Post([Note("DONE") EXCEPT !.connected = w.client # 0])
               /\ w' = [w EXCEPT !.pc = "wait"] /\ UNCHANGED faults
            \/ Fault /\ w' = Idle /\ UNCHANGED msgs
    /\ UNCHANGED <<v, ui, link, pins, history, threads, acts>>

(***************************************************************************)
(* The worker's terminal: terminal_pump                                    *)
(***************************************************************************)
\* The notice is lost when memory or the message queue is exhausted.
EndTerminal(x) ==
    /\ w' = [Closed(x) EXCEPT !.pc = "wait"]
    /\ \/ Post(Note("ENDED")) /\ UNCHANGED faults
       \/ Fault /\ UNCHANGED msgs

\* Any other handle than the request's: take the input and write it.
Pump ==
    /\ w.pc = "wait" /\ w.terminal /\ ~v.event
    /\ v.input_event \/ v.cancel \/ link.net \/ w.activity
    /\ IF v.stopping
       THEN w' = Idle /\ v' = [v EXCEPT !.input_event = FALSE] /\ UNCHANGED <<msgs, link, sent, faults>>
       ELSE LET taken == IF w.pending = <<>> THEN v.input ELSE w.pending
                x == [w EXCEPT !.pending = taken, !.room = OutputCap - v.output,
                               !.activity = taken # <<>>]
            IN /\ v' = [v EXCEPT !.input_event = FALSE,
                                 !.input = IF w.pending = <<>> THEN <<>> ELSE @]
               /\ link' = [link EXCEPT !.net = @ /\ (v.input_event \/ v.cancel)]
               /\ IF taken # <<>> /\ link.dead
                  THEN EndTerminal(x) /\ UNCHANGED sent
                  ELSE /\ sent' = sent \o [i \in 1 .. Len(taken) |-> <<taken[i], w.client>>]
                       /\ w' = [x EXCEPT !.pending = <<>>,
                                         !.pc = IF x.room > 0 THEN "read" ELSE "wait"]
                       /\ UNCHANGED <<msgs, faults>>
    /\ UNCHANGED <<ui, pins, asked, ran, threads, acts>>

Signalled(u) == ~u.output_posted

\* Output is announced once until the view has drained it.
Read ==
    /\ w.pc = "read"
    /\ IF v.cancel \/ link.dead THEN EndTerminal(w) /\ UNCHANGED <<v, link>>
       ELSE IF link.avail > 0
       THEN \E n \in 1 .. (IF link.avail < w.room THEN link.avail ELSE w.room) :
                /\ v' = [v EXCEPT !.output = @ + n, !.output_posted = TRUE]
                /\ link' = [link EXCEPT !.avail = @ - n]
                /\ w' = [w EXCEPT !.pc = "wait", !.activity = TRUE]
                /\ IF Signalled(v)
                   THEN \/ Post(Note("OUTPUT")) /\ UNCHANGED faults
                        \/ Fault /\ UNCHANGED msgs
                   ELSE UNCHANGED <<msgs, faults>>
       ELSE IF link.eof THEN EndTerminal(w) /\ UNCHANGED <<v, link>>
       ELSE w' = [w EXCEPT !.pc = "wait"] /\ UNCHANGED <<v, link, msgs, faults>>
    /\ UNCHANGED <<ui, pins, history, threads, acts>>

(***************************************************************************)
(* The far side                                                            *)
(***************************************************************************)
Produce ==
    /\ w.terminal /\ ~link.eof /\ ~link.dead /\ link.made < MaxOutput
    /\ link' = [link EXCEPT !.avail = @ + 1, !.net = TRUE, !.made = @ + 1]
    /\ UNCHANGED <<v, ui, w, msgs, pins, history, threads, acts, faults>>

Exit ==
    /\ w.terminal /\ ~link.eof /\ ~link.dead /\ Fault
    /\ link' = [link EXCEPT !.eof = TRUE, !.net = TRUE]
    /\ UNCHANGED <<v, ui, w, msgs, pins, history, threads, acts>>

Break ==
    /\ w.client # 0 /\ ~link.dead /\ Fault
    /\ link' = [link EXCEPT !.dead = TRUE, !.net = TRUE]
    /\ UNCHANGED <<v, ui, w, msgs, pins, history, threads, acts>>

Worker == \/ Wake \/ Connect \/ HostKey \/ Authenticate \/ Disconnected \/ List
          \/ BeginWrite \/ EndWrite \/ OpenTerminal \/ Reply \/ Pump \/ Read
Interface == Joined \/ StartWorker \/ WriteRequest \/ Done \/ Output \/ Ended
User == \/ OpenLogin \/ Login \/ CancelLogin \/ Disconnect \/ Close \/ NoWorker
        \/ Request \/ Switch \/ Cancel \/ CloseFailed \/ Trust \/ Distrust
        \/ \E c \in Command : Run(c) \/ Type(c)
Next == Worker \/ Interface \/ User \/ Produce \/ Exit \/ Break

\* The threads run and the interface thread takes its messages; the user and
\* the far side owe nothing.  Every operation of the worker ends: it has a
\* deadline and its socket does not block.
Fairness == WF_vars(Worker) /\ WF_vars(Interface)
Spec == Init /\ [][Next]_vars /\ Fairness
-----------------------------------------------------------------------------
TypeOK ==
    /\ v \in View /\ ui \in Dialog \cup {"loop", "stop", "reconnect", "close", "connect", "submit", "closed"}
    /\ w \in Thread /\ msgs \in Seq(Notice) /\ link \in FarSide /\ pins \in BOOLEAN
    /\ asked \in [Command -> Nat] /\ sent \in Seq(Command \X Nat) /\ ran \in Seq(Nat)
    /\ threads \in 0 .. MaxConnects /\ acts \in 0 .. MaxActs /\ faults \in 0 .. MaxFaults

\* A command reaches a shell at most once, and only the shell of the
\* connection it was submitted in: nothing typed before a disconnection is
\* replayed after it (stop_worker, finish, the comment in ssh_view_run).
CommandsOnce ==
    /\ \A i \in 1 .. Len(sent) : asked[sent[i][1]] = sent[i][2]
    /\ \A i, j \in 1 .. Len(sent) : i < j => sent[i][1] # sent[j][1]

\* A message the view finds in its queue was posted by the worker it has now
\* (stop_worker empties the queue behind the join).
MessagesOfThisWorker == \A i \in 1 .. Len(msgs) : v.thread /\ msgs[i].thread = threads

\* A busy view is answered, and a disconnection or close comes to its end,
\* unless the answer could not be posted (remote_worker, stop_worker).
Answered ==
    /\ v.busy ~> (~v.busy \/ (w.pc = "gone" /\ ~v.stopping) \/ ui \in Dialog)
    /\ ui \in {"stop", "reconnect", "close"} ~> ui \in {"loop", "connect", "closed"}

\* Output of the shell is read and shown and input is written, however full the
\* other buffer is, while no announcement was lost (terminal_pump, terminal_drain).
TerminalFlows ==
    /\ v.output > 0 ~> (v.output = 0 \/ faults > 0)
    /\ v.input # <<>> ~> (v.input = <<>> \/ ~v.terminal_running \/ faults > 0)
    /\ link.avail > 0 ~> (link.avail = 0 \/ ~w.terminal \/ faults > 0)

\* No remote write is begun twice ("remote writes and commands are never
\* retried automatically", the status text of submit).
NeverRetried == \A i, j \in 1 .. Len(ran) : i < j => ran[i] # ran[j]

\* A shell ends by the user, the far side or a failure, never by itself.
ShellRetained ==
    [][w.terminal /\ ~w'.terminal => v.busy \/ v.stopping \/ link.dead \/ link.eof \/ faults > 0]_vars
=============================================================================
