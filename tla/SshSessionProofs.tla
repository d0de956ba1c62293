--------------------------- MODULE SshSessionProofs ---------------------------
(***************************************************************************)
(* Theorems about a remote tab, for any commands, any buffer sizes and any *)
(* number of connections, operations and faults.                           *)
(***************************************************************************)
EXTENDS SshSession, TLAPS

-----------------------------------------------------------------------------
(* Who is there: the worker, the view that knows of it, its messages. *)

\* What the worker may add to the shared buffer while it reads.
RoomIsFree == w.pc = "read" => v.output + w.room <= OutputCap

\* A worker that left holds nothing; a worker that runs is the one the view
\* has; the client it holds was opened for the present connection.
WorkerIsKnown ==
    /\ w.pc = "gone" => w = Idle
    /\ w.pc # "gone" => v.thread
    /\ w.client \in {0, threads}
    /\ w.terminal => w.client # 0
    /\ v.thread => threads > 0

\* A view without a worker is not connected and keeps no input.
ViewIsAlone ==
    /\ ~v.thread => ~v.connected /\ v.input = <<>> /\ v.pending_command = NoCommand
    /\ ui = "connect" => ~v.thread

\* ssh_view_connect has a worker left to start (the bound of the model).
ConnectsLeft == ui \in {"reconnect", "connect"} => threads < MaxConnects

SessionInv ==
    /\ TypeOK /\ RoomIsFree /\ WorkerIsKnown /\ ViewIsAlone /\ ConnectsLeft
    /\ MessagesOfThisWorker

-----------------------------------------------------------------------------
(* Where a command can be: kept, in the input buffer, with the worker, sent. *)

AskedNow ==
    /\ v.pending_command # NoCommand => asked[v.pending_command] = threads
    /\ \A i \in 1 .. Len(v.input) : asked[v.input[i]] = threads
    /\ \A i \in 1 .. Len(w.pending) : asked[w.pending[i]] = threads

NeverTwice(s) == \A i, j \in 1 .. Len(s) : s[i] = s[j] => i = j
Disjoint(s, t) == \A i \in 1 .. Len(s), j \in 1 .. Len(t) : s[i] # t[j]
Without(c, s) == \A i \in 1 .. Len(s) : s[i] # c
Unsent(s) == \A i \in 1 .. Len(sent), j \in 1 .. Len(s) : sent[i][1] # s[j]

InOnePlace ==
    /\ NeverTwice(v.input) /\ NeverTwice(w.pending) /\ Disjoint(v.input, w.pending)
    /\ Unsent(v.input) /\ Unsent(w.pending)
    /\ v.pending_command # NoCommand =>
          /\ Without(v.pending_command, v.input) /\ Without(v.pending_command, w.pending)
          /\ \A i \in 1 .. Len(sent) : sent[i][1] # v.pending_command

\* What was sent went to the shell of some connection.
SentSomewhere == \A i \in 1 .. Len(sent) : sent[i][2] # 0

CommandInv == AskedNow /\ InOnePlace /\ SentSomewhere /\ CommandsOnce

-----------------------------------------------------------------------------
(* The view's operations, on any view. *)

\* What most operations leave alone.
SameLink(a, b) ==
    /\ b.thread = a.thread /\ b.connected = a.connected /\ b.stopping = a.stopping
    /\ b.output = a.output /\ b.input = a.input

LEMMA SubmitView ==
    ASSUME NEW u \in View, NEW job \in Job
    PROVE  /\ Submit(u, job) \in View /\ SameLink(u, Submit(u, job))
           /\ Submit(u, job).pending_command = u.pending_command
           /\ Submit(u, job).terminal_running = u.terminal_running
<1>1. u.req + 1 \in Nat
  BY DEF View
<1>2. CASE u.busy \/ (~u.connected /\ job # "connect")
  BY <1>2 DEF Submit, SameLink
<1>3. CASE ~(u.busy \/ (~u.connected /\ job # "connect"))
  <2> DEFINE s == [u EXCEPT !.cancel = FALSE, !.job = job, !.req = @ + 1, !.busy = TRUE,
                            !.event = TRUE]
  <2>1. Submit(u, job) = s
    BY <1>3 DEF Submit
  <2>2. s \in View
    BY <1>1 DEF View
  <2>3. SameLink(u, s) /\ s.pending_command = u.pending_command
        /\ s.terminal_running = u.terminal_running
    BY DEF View, SameLink
  <2> HIDE DEF s
  <2> QED BY <2>1, <2>2, <2>3
<1> QED BY <1>2, <1>3

LEMMA SendView ==
    ASSUME NEW u \in View, NEW c \in Command
    PROVE  /\ Send(u, c) \in View
           /\ \/ Send(u, c) = u
              \/ /\ u.connected /\ Send(u, c).thread = u.thread
                 /\ Send(u, c).connected = u.connected /\ Send(u, c).stopping = u.stopping
                 /\ Send(u, c).output = u.output
                 /\ Send(u, c).pending_command = u.pending_command
                 /\ Send(u, c).input = Append(u.input, c)
<1>1. Append(u.input, c) \in Seq(Command)
  BY DEF View
<1>2. CASE u.connected /\ u.terminal_running /\ Len(u.input) < InputCap
  <2> DEFINE s == [u EXCEPT !.input = Append(@, c), !.input_event = TRUE]
  <2>1. Send(u, c) = s
    BY <1>2 DEF Send
  <2>2. s \in View
    BY <1>1 DEF View
  <2>3. /\ s.thread = u.thread /\ s.connected = u.connected /\ s.stopping = u.stopping
        /\ s.output = u.output /\ s.pending_command = u.pending_command
        /\ s.input = Append(u.input, c)
    BY DEF View
  <2> HIDE DEF s
  <2> QED BY <1>2, <2>1, <2>2, <2>3
<1>3. CASE ~(u.connected /\ u.terminal_running /\ Len(u.input) < InputCap)
  BY <1>3 DEF Send
<1> QED BY <1>2, <1>3

LEMMA DrainView ==
    ASSUME NEW u \in View
    PROVE  /\ Drain(u) \in View
           /\ Drain(u).thread = u.thread /\ Drain(u).connected = u.connected
           /\ Drain(u).stopping = u.stopping /\ Drain(u).output = 0
           /\ Drain(u).input = u.input /\ Drain(u).pending_command = u.pending_command
<1>1. 0 \in 0 .. OutputCap
  BY SessionConstants
<1>2. Drain(u) \in View
  BY <1>1 DEF Drain, View
<1> QED BY <1>2 DEF Drain, View

LEMMA StoppedView ==
    ASSUME NEW u \in View
    PROVE  /\ Stopped(u) \in View
           /\ ~Stopped(u).thread /\ ~Stopped(u).connected /\ Stopped(u).input = <<>>
           /\ Stopped(u).pending_command = NoCommand /\ Stopped(u).output = 0
<1>1. 0 \in 0 .. 3 /\ <<>> \in Seq(Command)
  OBVIOUS
<1> DEFINE d == Drain(u)
<1>2. d \in View /\ d.output = 0
  BY DrainView
<1>3. Stopped(u) = [d EXCEPT !.thread = FALSE, !.stopping = FALSE, !.busy = FALSE,
                             !.connected = FALSE, !.terminal_running = FALSE, !.code = 0,
                             !.pending_command = NoCommand, !.input = <<>>]
  BY DEF Stopped
<1> HIDE DEF d
<1>4. Stopped(u) \in View
  BY <1>1, <1>2, <1>3, ZenonT(40) DEF View
<1>5. /\ ~Stopped(u).thread /\ ~Stopped(u).connected /\ Stopped(u).input = <<>>
      /\ Stopped(u).pending_command = NoCommand /\ Stopped(u).output = d.output
  BY <1>2, <1>3 DEF View
<1> QED BY <1>2, <1>4, <1>5

LEMMA TerminalModeView ==
    ASSUME NEW u \in View
    PROVE  /\ TerminalMode(u) \in View /\ SameLink(u, TerminalMode(u))
           /\ TerminalMode(u).pending_command = u.pending_command
           /\ TerminalMode(u).terminal_running = u.terminal_running
<1> DEFINE shown == [u EXCEPT !.terminal_mode = TRUE]
<1>1. /\ shown \in View /\ SameLink(u, shown) /\ shown.pending_command = u.pending_command
      /\ shown.terminal_running = u.terminal_running
  BY DEF View, SameLink
<1>2. "terminal" \in Job
  BY DEF Job
<1>3. TerminalMode(u) = IF u.terminal_opened THEN shown ELSE Submit(shown, "terminal")
  BY DEF TerminalMode
<1> HIDE DEF shown
<1> QED BY <1>1, <1>2, <1>3, SubmitView DEF SameLink

LEMMA FilesModeView ==
    ASSUME NEW u \in View
    PROVE  /\ FilesMode(u) \in View /\ SameLink(u, FilesMode(u))
           /\ FilesMode(u).pending_command = u.pending_command
<1> DEFINE shown == [u EXCEPT !.terminal_mode = FALSE]
<1>1. shown \in View /\ SameLink(u, shown) /\ shown.pending_command = u.pending_command
  BY DEF View, SameLink
<1>2. "list" \in Job /\ FilesMode(u) = Submit(shown, "list")
  BY DEF Job, FilesMode
<1> HIDE DEF shown
<1> QED BY <1>1, <1>2, SubmitView DEF SameLink

\* The end of finish: the kept command goes into the shell's input, or is
\* dropped, or stays kept.
LEMMA FinishedView ==
    ASSUME NEW u \in View
    PROVE  /\ Finished(u) \in View
           /\ Finished(u).thread = u.thread /\ Finished(u).connected = u.connected
           /\ Finished(u).stopping = u.stopping /\ Finished(u).output = u.output
           /\ \/ /\ Finished(u).input = u.input
                 /\ Finished(u).pending_command \in {u.pending_command, NoCommand}
              \/ /\ u.pending_command # NoCommand /\ u.connected
                 /\ Finished(u).input = Append(u.input, u.pending_command)
                 /\ Finished(u).pending_command = NoCommand
<1> DEFINE ok == u.code = 0
           open == IF ok /\ u.job = "terminal"
                   THEN [u EXCEPT !.code = 0, !.terminal_opened = TRUE, !.terminal_running = TRUE]
                   ELSE [u EXCEPT !.code = 0]
           typed == IF ok /\ u.job = "terminal" /\ u.pending_command # NoCommand
                    THEN [Send(open, u.pending_command) EXCEPT !.pending_command = NoCommand]
                    ELSE IF ok THEN open ELSE [open EXCEPT !.pending_command = NoCommand]
           mode == IF typed.connected /\ typed.terminal_mode /\ ~typed.terminal_opened
                      /\ u.job # "terminal"
                   THEN TerminalMode(typed) ELSE typed
<1>1. open \in View /\ SameLink(u, open) /\ open.pending_command = u.pending_command
  <2>1. 0 \in 0 .. 3
    OBVIOUS
  <2>2. CASE ok /\ u.job = "terminal"
    BY <2>1, <2>2, ZenonT(40) DEF View, SameLink
  <2>3. CASE ~(ok /\ u.job = "terminal")
    BY <2>1, <2>3 DEF View, SameLink
  <2> QED BY <2>2, <2>3
<1>2. Finished(u) = IF ok /\ u.job = "write" THEN Submit(mode, "list") ELSE mode
  BY DEF Finished
<1>3. "list" \in Job
  BY DEF Job
<1> HIDE DEF open
<1>4. /\ typed \in View
      /\ typed.thread = u.thread /\ typed.connected = u.connected
      /\ typed.stopping = u.stopping /\ typed.output = u.output
      /\ \/ typed.input = u.input /\ typed.pending_command \in {u.pending_command, NoCommand}
         \/ /\ u.pending_command # NoCommand /\ u.connected
            /\ typed.input = Append(u.input, u.pending_command)
            /\ typed.pending_command = NoCommand
  <2>1. CASE ok /\ u.job = "terminal" /\ u.pending_command # NoCommand
    <3> DEFINE into == Send(open, u.pending_command)
    <3>1. u.pending_command \in Command
      BY <2>1 DEF View
    <3>2. /\ into \in View
          /\ \/ into = open
             \/ /\ open.connected /\ into.thread = open.thread
                /\ into.connected = open.connected /\ into.stopping = open.stopping
                /\ into.output = open.output
                /\ into.pending_command = open.pending_command
                /\ into.input = Append(open.input, u.pending_command)
      BY <1>1, <3>1, SendView
    <3>3. typed = [into EXCEPT !.pending_command = NoCommand]
      BY <2>1
    <3> HIDE DEF into, typed
    <3>4. /\ typed \in View /\ typed.pending_command = NoCommand
          /\ typed.thread = into.thread /\ typed.connected = into.connected
          /\ typed.stopping = into.stopping /\ typed.output = into.output
          /\ typed.input = into.input
      BY <3>2, <3>3 DEF View
    <3> QED BY <1>1, <2>1, <3>2, <3>4 DEF SameLink
  <2>2. CASE ~(ok /\ u.job = "terminal" /\ u.pending_command # NoCommand) /\ ok
    BY <1>1, <2>2 DEF SameLink
  <2>3. CASE ~(ok /\ u.job = "terminal" /\ u.pending_command # NoCommand) /\ ~ok
    <3>1. typed = [open EXCEPT !.pending_command = NoCommand]
      BY <2>3
    <3> QED BY <1>1, <3>1 DEF SameLink, View
  <2> QED BY <2>1, <2>2, <2>3
<1> HIDE DEF typed
<1>5. mode \in View /\ SameLink(typed, mode) /\ mode.pending_command = typed.pending_command
  BY <1>4, TerminalModeView DEF SameLink
<1> HIDE DEF mode
<1>6. /\ Finished(u) \in View /\ SameLink(mode, Finished(u))
      /\ Finished(u).pending_command = mode.pending_command
  BY <1>2, <1>3, <1>5, SubmitView DEF SameLink
<1> QED BY <1>4, <1>5, <1>6 DEF SameLink
-----------------------------------------------------------------------------
(***************************************************************************)
(* Every step is of one of five kinds.  Each kind preserves the invariant  *)
(* whatever the rest of the step does.                                     *)
(***************************************************************************)
Ui == Dialog \union {"loop", "stop", "reconnect", "close", "connect", "submit", "closed"}

\* A command enters the view, goes from its place in the view to the input
\* buffer, or is dropped.
Moves ==
    \/ /\ asked' = asked /\ v'.input = v.input
       /\ v'.pending_command \in {v.pending_command, NoCommand}
    \/ /\ asked' = asked /\ v.thread /\ v.pending_command # NoCommand
       /\ v'.input = Append(v.input, v.pending_command) /\ v'.pending_command = NoCommand
    \/ \E c \in Command :
          /\ asked[c] = 0 /\ v.thread /\ asked' = [asked EXCEPT ![c] = threads]
          /\ \/ v'.input = Append(v.input, c) /\ v'.pending_command = v.pending_command
             \/ v'.input = v.input /\ v'.pending_command = c

\* The interface thread works on the view of a connection.
InterfaceStep ==
    /\ v' \in View /\ v'.thread = v.thread /\ v'.output <= v.output
    /\ v'.connected => v.thread
    /\ UNCHANGED <<w, link, sent, ran, threads>>
    /\ msgs' = msgs \/ (msgs # <<>> /\ msgs' = Tail(msgs))
    /\ ui' \in Ui \ {"connect"} /\ (ui' = "reconnect" => threads < MaxConnects)
    /\ pins' \in BOOLEAN /\ acts' \in 0 .. MaxActs /\ faults' \in 0 .. MaxFaults
    /\ Moves

\* The view is left without a worker.
StopStep ==
    /\ w.pc = "gone" /\ v' = Stopped(v) /\ msgs' = <<>> /\ ui' \in Ui
    /\ UNCHANGED <<w, link, pins, history, threads, faults>>
    /\ acts' \in 0 .. MaxActs
    /\ ui' \in {"reconnect", "connect"} => threads < MaxConnects

\* The worker works on a request, or gives output to the view.
WorkerStep ==
    /\ w.pc # "gone"
    /\ v' \in View /\ v'.thread = v.thread /\ v'.connected = v.connected
    /\ v'.input = v.input /\ v'.pending_command = v.pending_command
    /\ w' \in Thread /\ w'.pc # "read" /\ (w'.pc = "gone" => w' = Idle)
    /\ w'.client \in {0, threads} /\ (w'.terminal => w'.client # 0)
    /\ w'.pending \in {w.pending, <<>>}
    /\ msgs' = msgs \/ \E m \in Notice : m.thread = threads /\ msgs' = Append(msgs, m)
    /\ link' \in FarSide /\ ran' \in Seq(Nat) /\ faults' \in 0 .. MaxFaults
    /\ UNCHANGED <<ui, pins, asked, sent, threads, acts>>

\* The view's message queue is first-in first-out.
LEMMA QueueType ==
    ASSUME NEW S, NEW q \in Seq(S)
    PROVE  /\ q # <<>> => /\ Tail(q) \in Seq(S) /\ Len(Tail(q)) = Len(q) - 1
                          /\ \A i \in 1 .. Len(Tail(q)) : Tail(q)[i] = q[i + 1]
           /\ \A e \in S : Append(q, e) \in Seq(S)
OBVIOUS

LEMMA InterfaceSession == SessionInv /\ InterfaceStep => SessionInv'
<1> SUFFICES ASSUME SessionInv, InterfaceStep PROVE SessionInv'
  OBVIOUS
<1> USE DEF SessionInv
<1>1. TypeOK'
  <2>1. msgs' \in Seq(Notice)
    BY QueueType DEF InterfaceStep, TypeOK
  <2>2. asked' \in [Command -> Nat]
    BY DEF InterfaceStep, Moves, TypeOK
  <2> QED BY <2>1, <2>2 DEF InterfaceStep, TypeOK, Ui
<1>2. RoomIsFree'
  <2>1. v.output \in Nat /\ v'.output \in Nat /\ w.room \in Nat /\ OutputCap \in Nat
    BY SessionConstants DEF InterfaceStep, TypeOK, View, Thread
  <2> QED BY <2>1 DEF InterfaceStep, RoomIsFree
<1>3. WorkerIsKnown'
  BY DEF InterfaceStep, WorkerIsKnown
<1>4. ViewIsAlone' /\ ConnectsLeft'
  BY DEF InterfaceStep, ViewIsAlone, Moves, ConnectsLeft
<1>5. MessagesOfThisWorker'
  <2>1. CASE msgs' = msgs
    BY <2>1 DEF InterfaceStep, MessagesOfThisWorker
  <2>2. CASE msgs # <<>> /\ msgs' = Tail(msgs)
    <3>1. msgs \in Seq(Notice) /\ Len(msgs) > 0 /\ Len(msgs') = Len(msgs) - 1
      BY <2>2 DEF TypeOK
    <3>2. \A i \in 1 .. Len(msgs') : msgs'[i] = msgs[i + 1] /\ i + 1 \in 1 .. Len(msgs)
      BY <2>2, <3>1
    <3>3. v'.thread = v.thread /\ threads' = threads
      BY DEF InterfaceStep
    <3> QED BY <3>2, <3>3 DEF MessagesOfThisWorker
  <2> QED BY <2>1, <2>2 DEF InterfaceStep
<1> QED BY <1>1, <1>2, <1>3, <1>4, <1>5

LEMMA StopSession == SessionInv /\ StopStep => SessionInv'
<1> SUFFICES ASSUME SessionInv, StopStep PROVE SessionInv'
  OBVIOUS
<1> USE DEF SessionInv
<1>1. /\ v' \in View /\ ~v'.thread /\ ~v'.connected /\ v'.input = <<>>
      /\ v'.pending_command = NoCommand /\ v'.output = 0
  BY StoppedView DEF StopStep, TypeOK
<1>2. TypeOK'
  BY <1>1 DEF StopStep, history, TypeOK, Ui
<1>3. RoomIsFree' /\ WorkerIsKnown' /\ ViewIsAlone' /\ ConnectsLeft' /\ MessagesOfThisWorker'
  BY <1>1 DEF StopStep, RoomIsFree, WorkerIsKnown, ViewIsAlone, ConnectsLeft,
              MessagesOfThisWorker, Idle
<1> QED BY <1>2, <1>3

LEMMA WorkerSession == SessionInv /\ WorkerStep => SessionInv'
<1> SUFFICES ASSUME SessionInv, WorkerStep PROVE SessionInv'
  OBVIOUS
<1> USE DEF SessionInv
<1>1. v.thread
  BY DEF WorkerStep, WorkerIsKnown
<1>2. TypeOK'
  <2>1. msgs' \in Seq(Notice)
    BY QueueType DEF WorkerStep, TypeOK
  <2> QED BY <2>1 DEF WorkerStep, TypeOK, Ui
<1>3. RoomIsFree' /\ WorkerIsKnown' /\ ViewIsAlone' /\ ConnectsLeft'
  BY <1>1 DEF WorkerStep, RoomIsFree, WorkerIsKnown, ViewIsAlone, ConnectsLeft
<1>4. MessagesOfThisWorker'
  <2>1. CASE msgs' = msgs
    BY <2>1 DEF WorkerStep, MessagesOfThisWorker
  <2>2. ASSUME NEW m \in Notice, m.thread = threads, msgs' = Append(msgs, m)
        PROVE  MessagesOfThisWorker'
    <3>1. msgs \in Seq(Notice)
      BY DEF TypeOK
    <3>2. Len(msgs') = Len(msgs) + 1 /\ Len(msgs) \in Nat
      BY <2>2, <3>1
    <3>3. \A i \in 1 .. Len(msgs') : (i \in 1 .. Len(msgs) /\ msgs'[i] = msgs[i]) \/ msgs'[i] = m
      BY <2>2, <3>1, <3>2
    <3> QED BY <1>1, <2>2, <3>3 DEF WorkerStep, MessagesOfThisWorker
  <2> QED BY <2>1, <2>2 DEF WorkerStep
<1> QED BY <1>2, <1>3, <1>4
-----------------------------------------------------------------------------
(* The commands under each kind of step. *)

LEMMA StopCommands == SessionInv /\ CommandInv /\ StopStep => CommandInv'
<1> SUFFICES ASSUME SessionInv, CommandInv, StopStep PROVE CommandInv'
  OBVIOUS
<1>1. /\ v'.input = <<>> /\ v'.pending_command = NoCommand
      /\ UNCHANGED <<w, asked, sent, threads>>
  BY StoppedView DEF StopStep, history, SessionInv, TypeOK
<1>2. AskedNow'
  BY <1>1 DEF CommandInv, AskedNow
<1>3. InOnePlace'
  BY <1>1 DEF CommandInv, InOnePlace, NeverTwice, Disjoint, Unsent
<1>4. SentSomewhere' /\ CommandsOnce'
  BY <1>1 DEF CommandInv, SentSomewhere, CommandsOnce
<1> QED BY <1>2, <1>3, <1>4 DEF CommandInv

LEMMA WorkerCommands == SessionInv /\ CommandInv /\ WorkerStep => CommandInv'
<1> SUFFICES ASSUME SessionInv, CommandInv, WorkerStep PROVE CommandInv'
  OBVIOUS
<1>1. /\ v'.input = v.input /\ v'.pending_command = v.pending_command
      /\ w'.pending = w.pending \/ w'.pending = <<>>
      /\ UNCHANGED <<asked, sent, threads>>
  BY DEF WorkerStep
<1>2. AskedNow'
  BY <1>1 DEF CommandInv, AskedNow
<1>3. InOnePlace'
  BY <1>1 DEF CommandInv, InOnePlace, NeverTwice, Disjoint, Unsent, Without
<1>4. SentSomewhere' /\ CommandsOnce'
  BY <1>1 DEF CommandInv, SentSomewhere, CommandsOnce
<1> QED BY <1>2, <1>3, <1>4 DEF CommandInv

\* Appending a command that is not in the buffer.
LEMMA AppendFresh ==
    ASSUME NEW s \in Seq(Command), NEW c \in Command
    PROVE  /\ Len(Append(s, c)) = Len(s) + 1 /\ Len(s) \in Nat
           /\ \A i \in 1 .. Len(s) : Append(s, c)[i] = s[i]
           /\ Append(s, c)[Len(s) + 1] = c
           /\ \A i \in 1 .. Len(s) + 1 : i \in 1 .. Len(s) \/ i = Len(s) + 1
           /\ \A i \in 1 .. Len(s) : i # Len(s) + 1
OBVIOUS

LEMMA InterfaceCommands == SessionInv /\ CommandInv /\ InterfaceStep => CommandInv'
<1> SUFFICES ASSUME SessionInv, CommandInv, InterfaceStep PROVE CommandInv'
  OBVIOUS
<1>1. UNCHANGED <<w, sent, threads>> /\ v.input \in Seq(Command) /\ asked \in [Command -> Nat]
  BY DEF InterfaceStep, SessionInv, TypeOK, View
<1>2. CASE /\ asked' = asked /\ v'.input = v.input
           /\ v'.pending_command \in {v.pending_command, NoCommand}
  <2>1. AskedNow'
    BY <1>1, <1>2 DEF CommandInv, AskedNow
  <2>2. InOnePlace'
    BY <1>1, <1>2 DEF CommandInv, InOnePlace, NeverTwice, Disjoint, Unsent, Without
  <2>3. SentSomewhere' /\ CommandsOnce'
    BY <1>1, <1>2 DEF CommandInv, SentSomewhere, CommandsOnce
  <2> QED BY <2>1, <2>2, <2>3 DEF CommandInv
<1>3. ASSUME NEW c \in Command, asked'[c] = threads,
             \A x \in Command : x # c => asked'[x] = asked[x],
             Without(c, v.input), Without(c, w.pending),
             \A i \in 1 .. Len(sent) : sent[i][1] # c,
             \/ v'.input = Append(v.input, c)
                /\ v'.pending_command \in {v.pending_command, NoCommand}
                /\ v'.pending_command # c
             \/ v'.input = v.input /\ v'.pending_command = c
      PROVE  CommandInv'
  <2>1. /\ \A i \in 1 .. Len(v.input) : v.input[i] \in Command /\ v.input[i] # c
        /\ \A i \in 1 .. Len(w.pending) : w.pending[i] \in Command /\ w.pending[i] # c
        /\ \A i \in 1 .. Len(sent) : sent[i][1] \in Command
        /\ v.pending_command \in Command \union {NoCommand}
    <3>1. v.input \in Seq(Command) /\ w.pending \in Seq(Command) /\ sent \in Seq(Command \X Nat)
          /\ v.pending_command \in Command \union {NoCommand}
      BY DEF SessionInv, TypeOK, View, Thread
    <3> QED BY <1>3, <3>1 DEF Without
  <2>2. SentSomewhere' /\ CommandsOnce'
    BY <1>1, <1>3, <2>1 DEF CommandInv, SentSomewhere, CommandsOnce
  <2>3. CASE v'.input = Append(v.input, c)
             /\ v'.pending_command \in {v.pending_command, NoCommand}
             /\ v'.pending_command # c
    <3> DEFINE n == Len(v.input)
    <3>1. /\ Len(v'.input) = n + 1 /\ v'.input[n + 1] = c
          /\ \A i \in 1 .. n : v'.input[i] = v.input[i]
          /\ \A i \in 1 .. n + 1 : i \in 1 .. n \/ i = n + 1
          /\ \A i \in 1 .. n : i # n + 1
      BY <1>1, <2>3, AppendFresh
    <3> HIDE DEF n
    <3>2. AskedNow'
      BY <1>1, <1>3, <2>1, <2>3, <3>1 DEF CommandInv, AskedNow, n
    <3>3. NeverTwice(v'.input) /\ NeverTwice(w'.pending)
      BY <1>1, <2>1, <3>1, ZenonT(40) DEF CommandInv, InOnePlace, NeverTwice, n
    <3>4. Disjoint(v'.input, w'.pending)
      <4> SUFFICES ASSUME NEW i \in 1 .. n + 1, NEW j \in 1 .. Len(w.pending)
                   PROVE  v'.input[i] # w.pending[j]
        BY <1>1, <3>1 DEF Disjoint
      <4>1. CASE i \in 1 .. n
        BY <3>1, <4>1 DEF CommandInv, InOnePlace, Disjoint, n
      <4>2. CASE i = n + 1
        BY <2>1, <3>1, <4>2
      <4> QED BY <3>1, <4>1, <4>2
    <3>5. Unsent(v.input)' /\ Unsent(w.pending)'
      BY <1>1, <1>3, <2>1, <3>1 DEF CommandInv, InOnePlace, Unsent, n
    <3>6. v'.pending_command # NoCommand =>
              /\ Without(v'.pending_command, v'.input) /\ Without(v'.pending_command, w'.pending)
              /\ \A i \in 1 .. Len(sent') : sent'[i][1] # v'.pending_command
      BY <1>1, <2>1, <2>3, <3>1 DEF CommandInv, InOnePlace, Without, n
    <3> QED BY <2>2, <3>2, <3>3, <3>4, <3>5, <3>6 DEF CommandInv, InOnePlace
  <2>4. CASE v'.input = v.input /\ v'.pending_command = c
    <3>1. AskedNow'
      BY <1>1, <1>3, <2>1, <2>4 DEF CommandInv, AskedNow
    <3>2. /\ NeverTwice(v'.input) /\ NeverTwice(w'.pending) /\ Disjoint(v'.input, w'.pending)
          /\ Unsent(v.input)' /\ Unsent(w.pending)'
      BY <1>1, <2>4 DEF CommandInv, InOnePlace, Unsent
    <3>3. /\ Without(v'.pending_command, v'.input) /\ Without(v'.pending_command, w'.pending)
          /\ \A i \in 1 .. Len(sent') : sent'[i][1] # v'.pending_command
      BY <1>1, <1>3, <2>4
    <3> QED BY <2>2, <3>1, <3>2, <3>3 DEF CommandInv, InOnePlace
  <2> QED BY <1>3, <2>3, <2>4
<1>4. CASE /\ asked' = asked /\ v.thread /\ v.pending_command # NoCommand
           /\ v'.input = Append(v.input, v.pending_command) /\ v'.pending_command = NoCommand
  <2>1. v.pending_command \in Command
    BY <1>4 DEF SessionInv, TypeOK, View
  <2>2. /\ Without(v.pending_command, v.input) /\ Without(v.pending_command, w.pending)
        /\ \A i \in 1 .. Len(sent) : sent[i][1] # v.pending_command
        /\ asked[v.pending_command] = threads
    BY <1>4 DEF CommandInv, InOnePlace, AskedNow
  <2>3. v'.pending_command # v.pending_command
    BY <1>4
  <2> QED BY <1>3, <1>4, <2>1, <2>2, <2>3
<1>5. ASSUME NEW c \in Command, asked[c] = 0, v.thread,
             asked' = [asked EXCEPT ![c] = threads],
             \/ v'.input = Append(v.input, c) /\ v'.pending_command = v.pending_command
             \/ v'.input = v.input /\ v'.pending_command = c
      PROVE  CommandInv'
  <2>1. threads # 0
    BY <1>5 DEF SessionInv, WorkerIsKnown
  <2>2. Without(c, v.input) /\ Without(c, w.pending)
        /\ (v.pending_command # NoCommand => v.pending_command # c)
    BY <1>5, <2>1 DEF CommandInv, AskedNow, Without
  <2>3. \A i \in 1 .. Len(sent) : sent[i][1] # c
    BY <1>5 DEF CommandInv, SentSomewhere, CommandsOnce
  <2>4. asked'[c] = threads /\ \A x \in Command : x # c => asked'[x] = asked[x]
    BY <1>1, <1>5
  <2>5. NoCommand # c
    BY SessionConstants
  <2> QED BY <1>3, <1>5, <2>2, <2>3, <2>4, <2>5
<1> QED BY <1>2, <1>4, <1>5 DEF InterfaceStep, Moves
-----------------------------------------------------------------------------
(* The kind of each step: the interface thread. *)

LEMMA Counters ==
    SessionInv => /\ faults \in 0 .. MaxFaults /\ acts \in 0 .. MaxActs
                  /\ pins \in BOOLEAN /\ ui \in Ui
                  /\ Fault => faults' \in 0 .. MaxFaults
                  /\ Acts => acts' \in 0 .. MaxActs
BY SessionConstants DEF SessionInv, TypeOK, Fault, Acts, Ui

\* An operation that keeps the connection, its output and its input.
LEMMA CalmStep ==
    ASSUME SessionInv, v' \in View, SameLink(v, v'),
           v'.pending_command \in {v.pending_command, NoCommand},
           msgs' = msgs \/ (msgs # <<>> /\ msgs' = Tail(msgs)),
           ui' \in Ui \ {"connect", "reconnect"}, pins' \in BOOLEAN,
           acts' \in 0 .. MaxActs, faults' \in 0 .. MaxFaults,
           UNCHANGED <<w, link, asked, sent, ran, threads>>
    PROVE  InterfaceStep
<1>1. v.output \in Nat
  BY SessionConstants DEF SessionInv, TypeOK, View
<1>2. v.connected => v.thread
  BY DEF SessionInv, ViewIsAlone
<1> QED BY <1>1, <1>2 DEF InterfaceStep, Moves, SameLink

\* Stop, with a worker to join or without one.
LEMMA StopKind ==
    ASSUME SessionInv, NEW next \in {"stop", "reconnect", "close"}, Stop(next),
           next = "reconnect" => threads < MaxConnects,
           UNCHANGED <<w, link, pins, history, threads, faults>>, acts' \in 0 .. MaxActs
    PROVE  InterfaceStep \/ StopStep
<1>0. v \in View
  BY DEF SessionInv, TypeOK
<1>1. CASE v.thread
  <2>1. v' = [v EXCEPT !.stopping = TRUE, !.cancel = TRUE, !.event = TRUE]
        /\ ui' = next /\ msgs' = msgs
    BY <1>1 DEF Stop
  <2>2. /\ v' \in View /\ v'.thread = v.thread /\ v'.connected = v.connected
        /\ v'.output = v.output /\ v'.input = v.input
        /\ v'.pending_command = v.pending_command
    BY <1>0, <2>1 DEF View
  <2>3. v.output \in Nat
    BY <1>0, SessionConstants DEF View
  <2>4. Moves
    BY <2>2 DEF Moves, history
  <2>5. ui' \in Ui \ {"connect"} /\ (ui' = "reconnect" => threads < MaxConnects)
    BY <2>1 DEF Ui
  <2>6. v'.output <= v.output
    BY <2>2, <2>3
  <2>7. UNCHANGED <<w, link, sent, ran, threads>> /\ msgs' = msgs
    BY <2>1 DEF history
  <2>8. pins' \in BOOLEAN /\ acts' \in 0 .. MaxActs /\ faults' \in 0 .. MaxFaults
    BY Counters
  <2> QED BY <1>1, <2>2, <2>4, <2>5, <2>6, <2>7, <2>8 DEF InterfaceStep
<1>2. CASE ~v.thread
  <2>1. w.pc = "gone"
    BY <1>2 DEF SessionInv, WorkerIsKnown
  <2>2. /\ v' = Stopped(v) /\ msgs' = <<>> /\ ui' \in {"connect", "loop", "closed"}
        /\ ui' = "connect" => next = "reconnect"
    BY <1>2 DEF Stop
  <2> QED BY <2>1, <2>2 DEF StopStep, Ui
<1> QED BY <1>1, <1>2

LEMMA DialogKinds ==
    ASSUME SessionInv, OpenLogin \/ Login \/ CancelLogin \/ Disconnect \/ Close
    PROVE  InterfaceStep \/ StopStep
<1>0. v \in View /\ SameLink(v, v)
  BY DEF SessionInv, TypeOK, SameLink
<1>1. CASE OpenLogin
  BY <1>0, <1>1, CalmStep, Counters DEF OpenLogin, history, Ui, Dialog
<1>2. CASE CancelLogin
  BY <1>0, <1>2, CalmStep, Counters DEF CancelLogin, history, Ui
<1>3. CASE Login /\ v.busy
  BY <1>0, <1>3, CalmStep, Counters DEF Login, history, Ui
<1>4. CASE Login /\ ~v.busy
  BY <1>4, StopKind, Counters DEF Login
<1>5. CASE Disconnect
  BY <1>5, StopKind, Counters DEF Disconnect
<1>6. CASE Close
  BY <1>6, StopKind, Counters DEF Close
<1> QED BY <1>1, <1>2, <1>3, <1>4, <1>5, <1>6

LEMMA JoinedKind == SessionInv /\ Joined => StopStep
BY Counters DEF Joined, StopStep, Discarded, Ui, SessionInv, ConnectsLeft

LEMMA NoWorkerKind == SessionInv /\ NoWorker => InterfaceStep
<1> SUFFICES ASSUME SessionInv, NoWorker PROVE InterfaceStep
  OBVIOUS
<1>1. v \in View /\ pins \in BOOLEAN
  BY DEF SessionInv, TypeOK
<1>2. v' \in View /\ SameLink(v, v') /\ v'.pending_command = v.pending_command
  BY <1>1 DEF NoWorker, View, SameLink
<1> QED BY <1>2, CalmStep, Counters DEF NoWorker, history, Ui

LEMMA WriteRequestKind == SessionInv /\ WriteRequest => InterfaceStep
<1> SUFFICES ASSUME SessionInv, WriteRequest PROVE InterfaceStep
  OBVIOUS
<1>1. v' \in View /\ SameLink(v, v') /\ v'.pending_command = v.pending_command
  BY SubmitView DEF SessionInv, TypeOK, Job, WriteRequest
<1> QED BY <1>1, CalmStep, Counters DEF WriteRequest, history, Ui

LEMMA RequestKinds ==
    ASSUME SessionInv, Request \/ Switch \/ Cancel
    PROVE  InterfaceStep
<1>0. v \in View
  BY DEF SessionInv, TypeOK
<1>1. CASE Request
  <2>1. v' \in View /\ SameLink(v, v') /\ v'.pending_command = v.pending_command
    BY <1>0, <1>1, SubmitView DEF Request, Job
  <2> QED BY <1>1, <2>1, CalmStep, Counters DEF Request, history, Ui
<1>2. CASE Switch
  <2>1. v' \in View /\ SameLink(v, v') /\ v'.pending_command = v.pending_command
    BY <1>0, <1>2, TerminalModeView, FilesModeView DEF Switch
  <2> QED BY <1>2, <2>1, CalmStep, Counters DEF Switch, history, Ui
<1>3. CASE Cancel
  <2>1. v' \in View /\ SameLink(v, v') /\ v'.pending_command = NoCommand
    BY <1>0, <1>3 DEF Cancel, View, SameLink
  <2> QED BY <1>3, <2>1, CalmStep, Counters DEF Cancel, history, Ui
<1> QED BY <1>1, <1>2, <1>3

LEMMA TypeKind == SessionInv /\ (\E c \in Command : Type(c)) => InterfaceStep
<1> SUFFICES ASSUME SessionInv, NEW c \in Command, Type(c) PROVE InterfaceStep
  OBVIOUS
<1>1. v \in View /\ v.output \in Nat /\ v.thread
  BY SessionConstants DEF SessionInv, TypeOK, View, Type, ViewIsAlone
<1>2. v' = [v EXCEPT !.input = Append(@, c), !.input_event = TRUE]
  BY DEF Type, Send
<1>3. v' \in View
  BY <1>1, SendView DEF Type
<1>4. /\ v'.thread = v.thread /\ v'.output = v.output /\ v'.input = Append(v.input, c)
      /\ v'.pending_command = v.pending_command
  BY <1>1, <1>2 DEF View
<1>5. Moves
  BY <1>1, <1>4 DEF Type, Moves
<1>6. v'.output <= v.output
  BY <1>1, <1>4
<1> QED BY <1>1, <1>3, <1>4, <1>5, <1>6, Counters DEF Type, InterfaceStep, Ui

LEMMA FinishKinds ==
    ASSUME SessionInv, CloseFailed \/ Distrust \/ Trust
    PROVE  InterfaceStep
<1>0. v \in View /\ v.output \in Nat /\ (v.connected => v.thread)
  BY SessionConstants DEF SessionInv, TypeOK, View, ViewIsAlone
<1>1. CASE CloseFailed \/ Distrust
  <2>1. v' = Finished(v) /\ ui' = "loop"
        /\ UNCHANGED <<w, msgs, link, pins, history, threads, acts, faults>>
    BY <1>1 DEF CloseFailed, Distrust
  <2>2. /\ v' \in View /\ v'.thread = v.thread /\ v'.connected = v.connected
        /\ v'.output = v.output
        /\ \/ v'.input = v.input /\ v'.pending_command \in {v.pending_command, NoCommand}
           \/ /\ v.pending_command # NoCommand /\ v.connected
              /\ v'.input = Append(v.input, v.pending_command)
              /\ v'.pending_command = NoCommand
    BY <1>0, <2>1, FinishedView
  <2>3. Moves
    BY <1>0, <2>1, <2>2 DEF Moves, history
  <2> QED BY <1>0, <2>1, <2>2, <2>3, Counters DEF InterfaceStep, Ui, history
<1>2. CASE Trust
  <2> DEFINE u == [v EXCEPT !.pinned = TRUE, !.code = 0]
  <2>1. u \in View /\ SameLink(v, u) /\ u.pending_command = v.pending_command
    <3>1. 0 \in 0 .. 3
      OBVIOUS
    <3> QED BY <1>0, <3>1 DEF View, SameLink
  <2>2. v' = Submit(u, "connect") /\ "connect" \in Job
    BY <1>2 DEF Trust, Job
  <2> HIDE DEF u
  <2>3. v' \in View /\ SameLink(v, v') /\ v'.pending_command = v.pending_command
    BY <2>1, <2>2, SubmitView DEF SameLink
  <2> QED BY <1>2, <2>3, CalmStep, Counters DEF Trust, Ui, history
<1> QED BY <1>1, <1>2
\* ssh_view_run: the command is typed, kept, or refused.
LEMMA RunKind == SessionInv /\ (\E c \in Command : Run(c)) => InterfaceStep
<1> SUFFICES ASSUME SessionInv, NEW c \in Command, Run(c) PROVE InterfaceStep
  OBVIOUS
<1> DEFINE kept == [v EXCEPT !.pending_command = c]
           shown == [v EXCEPT !.terminal_mode = TRUE]
           waiting == TerminalMode(kept)
           typed == Send(shown, c)
           accepted == IF v.terminal_running THEN typed.input # v.input
                       ELSE waiting.busy /\ waiting.job = "terminal"
<1>0. /\ v \in View /\ v.output \in Nat /\ v.thread /\ v.input \in Seq(Command)
      /\ asked \in [Command -> Nat] /\ asked[c] = 0
  BY SessionConstants DEF SessionInv, TypeOK, View, Run, ViewIsAlone
<1>1. kept \in View /\ SameLink(v, kept) /\ kept.pending_command = c
  BY <1>0 DEF View, SameLink
<1>2. shown \in View /\ SameLink(v, shown) /\ shown.pending_command = v.pending_command
  BY <1>0 DEF View, SameLink
<1>3. /\ v' = IF v.terminal_running THEN typed
              ELSE IF waiting.busy /\ waiting.job = "terminal" THEN waiting
              ELSE [waiting EXCEPT !.pending_command = NoCommand]
      /\ asked' = [asked EXCEPT ![c] = IF accepted THEN threads ELSE 0]
      /\ ui = "loop" /\ Acts
      /\ UNCHANGED <<ui, w, msgs, link, pins, sent, ran, threads, faults>>
  BY DEF Run
<1> HIDE DEF kept, shown
<1>4. waiting \in View /\ SameLink(v, waiting) /\ waiting.pending_command = c
  BY <1>1, TerminalModeView DEF SameLink
<1>5. /\ typed \in View /\ typed.thread = v.thread /\ typed.connected = v.connected
      /\ typed.output = v.output /\ typed.pending_command = v.pending_command
      /\ typed.input = v.input \/ typed.input = Append(v.input, c)
  BY <1>2, SendView DEF SameLink
<1> HIDE DEF waiting, typed
<1>6. accepted => asked' = [asked EXCEPT ![c] = threads]
  BY <1>3
<1>7. ~accepted => asked' = asked
  BY <1>0, <1>3
<1>8. /\ v' \in View /\ v'.thread = v.thread /\ v'.connected = v.connected
      /\ v'.output = v.output
      /\ \/ accepted /\ v'.input = Append(v.input, c)
            /\ v'.pending_command = v.pending_command
         \/ accepted /\ v'.input = v.input /\ v'.pending_command = c
         \/ ~accepted /\ v'.input = v.input
            /\ v'.pending_command \in {v.pending_command, NoCommand}
  <2>1. CASE v.terminal_running
    BY <1>3, <1>5, <2>1
  <2>2. CASE ~v.terminal_running /\ accepted
    BY <1>3, <1>4, <2>2 DEF SameLink
  <2>3. CASE ~v.terminal_running /\ ~accepted
    <3>1. v' = [waiting EXCEPT !.pending_command = NoCommand]
      BY <1>3, <2>3
    <3>2. /\ v' \in View /\ v'.thread = waiting.thread /\ v'.connected = waiting.connected
          /\ v'.output = waiting.output /\ v'.input = waiting.input
          /\ v'.pending_command = NoCommand
      BY <1>4, <3>1 DEF View
    <3> QED BY <1>4, <2>3, <3>2 DEF SameLink
  <2> QED BY <2>1, <2>2, <2>3
<1> HIDE DEF accepted
<1>9. Moves
  BY <1>0, <1>6, <1>7, <1>8 DEF Moves
<1>10. v'.output <= v.output
  BY <1>0, <1>8
<1> QED BY <1>0, <1>3, <1>8, <1>9, <1>10, Counters DEF InterfaceStep, Ui

LEMMA NoticeKinds ==
    ASSUME SessionInv, Output \/ Ended
    PROVE  InterfaceStep
<1>0. v \in View /\ v.output \in Nat /\ (v.connected => v.thread)
  BY SessionConstants DEF SessionInv, TypeOK, View, ViewIsAlone
<1> DEFINE d == Drain(v)
<1>1. /\ d \in View /\ d.thread = v.thread /\ d.connected = v.connected
      /\ d.output = 0 /\ d.input = v.input /\ d.pending_command = v.pending_command
  BY <1>0, DrainView
<1>2. \/ v' = d
      \/ v' = [d EXCEPT !.terminal_running = FALSE, !.connected = FALSE]
  BY DEF Output, Ended
<1>3. /\ ui \in Ui \ {"connect"} /\ msgs # <<>> /\ msgs' = Tail(msgs)
      /\ UNCHANGED <<ui, w, link, pins, history, threads, acts, faults>>
  BY DEF Output, Ended, Message, Dispatching, Dialog, Ui
<1>7. ui' # "reconnect"
  BY DEF Output, Ended, Dispatching, Dialog
<1> HIDE DEF d
<1>4. /\ v' \in View /\ v'.thread = v.thread /\ (v'.connected => v.connected)
      /\ v'.output = 0 /\ v'.input = v.input /\ v'.pending_command = v.pending_command
  <2>1. CASE v' = d
    BY <1>1, <2>1
  <2>2. CASE v' = [d EXCEPT !.terminal_running = FALSE, !.connected = FALSE]
    <3>1. /\ v' \in View /\ v'.thread = d.thread /\ ~v'.connected /\ v'.output = d.output
          /\ v'.input = d.input /\ v'.pending_command = d.pending_command
      BY <1>1, <2>2, ZenonT(40) DEF View
    <3> QED BY <1>1, <3>1
  <2> QED BY <1>2, <2>1, <2>2
<1>5. Moves
  BY <1>3, <1>4 DEF Moves, history
<1>6. v'.output <= v.output
  BY <1>0, <1>4
<1> QED BY <1>0, <1>3, <1>4, <1>5, <1>6, <1>7, Counters DEF InterfaceStep, history

\* finish: an answer is taken, and perhaps a dialog is opened first.
LEMMA DoneKind == SessionInv /\ Done => InterfaceStep
<1> SUFFICES ASSUME SessionInv, Done PROVE InterfaceStep
  OBVIOUS
<1> DEFINE connected == Head(msgs).connected
           u == [v EXCEPT !.busy = FALSE, !.connected = connected,
                          !.terminal_running = @ /\ connected]
<1>0. v \in View /\ v.output \in Nat /\ msgs \in Seq(Notice)
  BY SessionConstants DEF SessionInv, TypeOK, View
<1>1. /\ msgs # <<>> /\ msgs' = Tail(msgs)
      /\ UNCHANGED <<w, link, pins, history, threads, acts, faults>>
  BY DEF Done, Message
<1>2. v.thread
  <2>1. 1 \in 1 .. Len(msgs)
    BY <1>0, <1>1
  <2> QED BY <2>1 DEF SessionInv, MessagesOfThisWorker
<1>3. Head(msgs) \in Notice
  BY <1>0, <1>1
<1>4. connected \in BOOLEAN
  BY <1>3 DEF Notice
<1>5. \/ v' = u /\ ui' \in {"trust", "failed"}
      \/ v' = Finished(u) /\ ui' = "loop"
  BY DEF Done
<1> HIDE DEF connected
<1>6. /\ u \in View /\ u.thread = v.thread /\ u.output = v.output
      /\ u.input = v.input /\ u.pending_command = v.pending_command
  <2>1. (v.terminal_running /\ connected) \in BOOLEAN
    OBVIOUS
  <2> QED BY <1>0, <1>4, <2>1, ZenonT(40) DEF View
<1> HIDE DEF u
<1>7. /\ v' \in View /\ v'.thread = v.thread /\ v'.output = v.output
      /\ \/ v'.input = v.input /\ v'.pending_command \in {v.pending_command, NoCommand}
         \/ /\ v.pending_command # NoCommand /\ v'.pending_command = NoCommand
            /\ v'.input = Append(v.input, v.pending_command)
  <2>1. CASE v' = u
    BY <1>6, <2>1
  <2>2. CASE v' = Finished(u)
    BY <1>6, <2>2, FinishedView
  <2> QED BY <1>5, <2>1, <2>2
<1>8. Moves
  BY <1>1, <1>2, <1>7 DEF Moves, history
<1>9. v'.output <= v.output /\ ui' \in Ui \ {"connect", "reconnect"}
  BY <1>0, <1>5, <1>7 DEF Ui, Dialog
<1> QED BY <1>1, <1>2, <1>7, <1>8, <1>9, Counters DEF InterfaceStep, history

\* A worker is started for an empty view: only its number changes.
LEMMA StartWorkerSession == SessionInv /\ StartWorker => SessionInv'
<1> SUFFICES ASSUME SessionInv, StartWorker PROVE SessionInv'
  OBVIOUS
<1>0. v \in View /\ pins \in BOOLEAN /\ threads \in Nat /\ threads < MaxConnects
  BY SessionConstants DEF SessionInv, TypeOK, ConnectsLeft, StartWorker
<1>1. ~v.thread /\ ~v.connected /\ v.input = <<>> /\ v.pending_command = NoCommand
  BY DEF StartWorker, SessionInv, ViewIsAlone
<1>2. msgs = <<>>
  <2>1. \A i \in 1 .. Len(msgs) : FALSE
    BY <1>1 DEF SessionInv, MessagesOfThisWorker
  <2>2. msgs \in Seq(Notice)
    BY DEF SessionInv, TypeOK
  <2> QED BY <2>1, <2>2
<1>3. /\ v' \in View /\ v'.thread /\ v'.input = v.input
      /\ v'.pending_command = v.pending_command /\ v'.connected = v.connected
  BY <1>0, ZenonT(40) DEF StartWorker, View
<1>4. /\ w' \in Thread /\ w'.pc = "wait" /\ w'.client = 0 /\ ~w'.terminal
      /\ w'.pending = <<>>
  <2>1. 0 \in Nat /\ 0 \in 0 .. OutputCap /\ <<>> \in Seq(Command)
    BY SessionConstants
  <2> QED BY <2>1 DEF StartWorker, Idle, Thread, Place
<1>5. threads' = threads + 1 /\ threads' \in 0 .. MaxConnects /\ threads' > 0
  BY <1>0, SessionConstants DEF StartWorker
<1>6. TypeOK'
  BY <1>3, <1>4, <1>5 DEF StartWorker, history, SessionInv, TypeOK
<1>7. RoomIsFree' /\ WorkerIsKnown'
  BY <1>3, <1>4, <1>5 DEF RoomIsFree, WorkerIsKnown
<1>8. ViewIsAlone' /\ ConnectsLeft' /\ MessagesOfThisWorker'
  BY <1>2, <1>3 DEF StartWorker, ViewIsAlone, ConnectsLeft, MessagesOfThisWorker
<1> QED BY <1>6, <1>7, <1>8 DEF SessionInv

LEMMA StartWorkerCommands == SessionInv /\ CommandInv /\ StartWorker => CommandInv'
<1> SUFFICES ASSUME SessionInv, CommandInv, StartWorker PROVE CommandInv'
  OBVIOUS
<1>0. v \in View
  BY DEF SessionInv, TypeOK
<1>1. v.input = <<>> /\ v.pending_command = NoCommand
  BY DEF StartWorker, SessionInv, ViewIsAlone
<1>2. v'.input = <<>> /\ v'.pending_command = NoCommand
  BY <1>0, <1>1 DEF StartWorker, View
<1>3. w'.pending = <<>> /\ UNCHANGED <<asked, sent>>
  BY DEF StartWorker, Idle, history
<1>4. AskedNow' /\ InOnePlace'
  BY <1>2, <1>3 DEF AskedNow, InOnePlace, NeverTwice, Disjoint, Unsent
<1> QED BY <1>3, <1>4 DEF CommandInv, SentSomewhere, CommandsOnce
-----------------------------------------------------------------------------
(* The kind of each step: the worker. *)

\* A place the worker can be in with what it holds.
Holding(x) ==
    /\ x \in Thread /\ x.client \in {0, threads} /\ (x.terminal => x.client # 0)
    /\ x.pending \in {w.pending, <<>>}

LEMMA ClosedHolding ==
    ASSUME NEW x, Holding(x)
    PROVE  Holding(Closed(x)) /\ Closed(x).pc = x.pc /\ Closed(x).client = 0
           /\ Closed(x).pending = x.pending
<1>1. x \in Thread /\ 0 \in Nat
  BY DEF Holding
<1>2. /\ Closed(x) \in Thread /\ Closed(x).client = 0 /\ ~Closed(x).terminal
      /\ Closed(x).pending = x.pending /\ Closed(x).pc = x.pc
  BY <1>1 DEF Closed, Thread
<1> QED BY <1>2 DEF Holding

LEMMA GoesOn ==
    ASSUME NEW x, Holding(x), NEW p \in Place
    PROVE  Holding([x EXCEPT !.pc = p]) /\ [x EXCEPT !.pc = p].pc = p
<1> DEFINE y == [x EXCEPT !.pc = p]
<1>1. /\ y \in Thread /\ y.pc = p /\ y.client = x.client /\ y.terminal = x.terminal
      /\ y.pending = x.pending
  BY DEF Holding, Thread
<1> HIDE DEF y
<1>2. Holding(y) /\ y.pc = p
  BY <1>1 DEF Holding
<1> QED BY <1>2 DEF y

LEMMA IdleThread == SessionInv => Idle \in Thread /\ Idle.pc = "gone" /\ Idle.client = 0
                                  /\ Idle.terminal = FALSE /\ Idle.pending = <<>>
<1>1. 0 \in Nat /\ 0 \in 0 .. OutputCap /\ <<>> \in Seq(Command) /\ "gone" \in Place
  BY SessionConstants DEF Place
<1> QED BY <1>1 DEF Idle, Thread

LEMMA WorkerHolding == SessionInv /\ w.pc # "gone" => Holding(w) /\ v.thread
BY DEF SessionInv, TypeOK, WorkerIsKnown, Holding

\* What a step of the worker leaves of the view.
LEMMA CodeView ==
    ASSUME SessionInv, NEW n \in 0 .. 3
    PROVE  /\ [v EXCEPT !.code = n] \in View
           /\ [v EXCEPT !.code = n].thread = v.thread
           /\ [v EXCEPT !.code = n].connected = v.connected
           /\ [v EXCEPT !.code = n].input = v.input
           /\ [v EXCEPT !.code = n].pending_command = v.pending_command
<1>1. v \in View
  BY DEF SessionInv, TypeOK
<1> QED BY <1>1 DEF View

ViewIsKept ==
    /\ v' \in View /\ v'.thread = v.thread /\ v'.connected = v.connected
    /\ v'.input = v.input /\ v'.pending_command = v.pending_command

LEMMA AnswerKind ==
    ASSUME SessionInv, NEW x, Holding(x), NEW n \in 0 .. 3, NEW healthy,
           Answer(x, n, healthy)
    PROVE  ViewIsKept /\ Holding(w') /\ w'.pc = "post"
<1>1. ViewIsKept
  BY CodeView DEF Answer, ViewIsKept
<1>2. PICK y : Holding(y) /\ w' = [y EXCEPT !.pc = "post"]
  <2>1. CASE n = 3 \/ (n # 0 /\ (~healthy \/ v.job = "terminal"))
    BY <2>1, ClosedHolding DEF Answer
  <2>2. CASE ~(n = 3 \/ (n # 0 /\ (~healthy \/ v.job = "terminal")))
    BY <2>2 DEF Answer
  <2> QED BY <2>1, <2>2
<1>3. "post" \in Place
  BY DEF Place
<1> QED BY <1>1, <1>2, <1>3, GoesOn

\* The far side and the counters under a step of the worker.
LEMMA WorkerKind ==
    ASSUME SessionInv, w.pc # "gone", ViewIsKept, Holding(w'),
           w'.pc \notin {"gone", "read"} \/ w' = Idle,
           \/ msgs' = msgs
           \/ \E m \in Notice : m.thread = threads /\ msgs' = Append(msgs, m),
           link' = link \/ link' \in FarSide,
           ran' = ran \/ ran' \in Seq(Nat),
           UNCHANGED faults \/ Fault,
           UNCHANGED <<ui, pins, asked, sent, threads, acts>>
    PROVE  WorkerStep
<1>1. w'.pc # "read" /\ (w'.pc = "gone" => w' = Idle)
  BY IdleThread
<1>2. link' \in FarSide /\ ran' \in Seq(Nat)
  BY DEF SessionInv, TypeOK
<1>3. faults' \in 0 .. MaxFaults
  BY Counters
<1> QED BY <1>1, <1>2, <1>3 DEF WorkerStep, ViewIsKept, Holding

LEMMA KeptView ==
    SessionInv /\ UNCHANGED v => ViewIsKept
BY DEF SessionInv, TypeOK, ViewIsKept

LEMMA WakeKind == SessionInv /\ Wake => WorkerStep
<1> SUFFICES ASSUME SessionInv, Wake PROVE WorkerStep
  OBVIOUS
<1>0. v \in View /\ w.pc # "gone" /\ Holding(w)
  BY WorkerHolding DEF SessionInv, TypeOK, Wake
<1>1. ViewIsKept
  BY <1>0 DEF Wake, View, ViewIsKept
<1>2. Holding(w') /\ (w'.pc \notin {"gone", "read"} \/ w' = Idle)
  <2>1. CASE v.stopping
    BY <2>1, IdleThread DEF Wake, Holding
  <2>2. CASE ~v.stopping
    <3>1. w' = [w EXCEPT !.pc = "run", !.req = v.req] /\ "run" \in Place /\ v.req \in Nat
      BY <1>0, <2>2 DEF Wake, Place, View
    <3>2. /\ w' \in Thread /\ w'.pc = "run" /\ w'.client = w.client
          /\ w'.terminal = w.terminal /\ w'.pending = w.pending
      BY <1>0, <3>1 DEF Holding, Thread
    <3> QED BY <1>0, <3>2 DEF Holding
  <2> QED BY <2>1, <2>2
<1> QED BY <1>0, <1>1, <1>2, WorkerKind DEF Wake, history

LEMMA QuietLink == SessionInv => Quiet \in FarSide
BY SessionConstants DEF Quiet, FarSide

LEMMA FailsCode ==
    ASSUME NEW code, Fails(code)
    PROVE  code \in 0 .. 3 /\ (UNCHANGED faults \/ Fault)
BY DEF Fails

LEMMA ConnectKind == SessionInv /\ Connect => WorkerStep
<1> SUFFICES ASSUME SessionInv, Connect PROVE WorkerStep
  OBVIOUS
<1> DEFINE x == [Closed(w) EXCEPT !.pending = <<>>]
<1>0. w.pc # "gone" /\ Holding(w)
  BY WorkerHolding DEF Connect
<1>1. Holding(x)
  <2>1. Holding(Closed(w)) /\ <<>> \in Seq(Command)
    BY <1>0, ClosedHolding
  <2>2. /\ x \in Thread /\ x.client = Closed(w).client /\ x.terminal = Closed(w).terminal
        /\ x.pending = <<>>
    BY <2>1 DEF Holding, Thread
  <2> HIDE DEF x
  <2> QED BY <2>1, <2>2 DEF Holding
<1>2. /\ UNCHANGED <<ui, msgs, pins, history, threads, acts>> /\ link' = Quiet
      /\ \/ w' = [x EXCEPT !.pc = "host_key"] /\ v' = [v EXCEPT !.code = 0] /\ UNCHANGED faults
         \/ \E code \in {1, 3} : Fails(code) /\ Answer(x, code, FALSE)
  BY DEF Connect
<1> HIDE DEF x
<1>3. CASE w' = [x EXCEPT !.pc = "host_key"] /\ v' = [v EXCEPT !.code = 0] /\ UNCHANGED faults
  <2>1. ViewIsKept
    BY <1>3, CodeView DEF ViewIsKept
  <2>2. Holding(w') /\ w'.pc = "host_key"
    BY <1>1, <1>3, GoesOn DEF Place
  <2> QED BY <1>0, <1>2, <1>3, <2>1, <2>2, WorkerKind, QuietLink DEF history
<1>4. ASSUME NEW code \in {1, 3}, Fails(code), Answer(x, code, FALSE)
      PROVE  WorkerStep
  <2>1. ViewIsKept /\ Holding(w') /\ w'.pc = "post"
    BY <1>1, <1>4, FailsCode, AnswerKind
  <2> QED BY <1>0, <1>2, <1>4, <2>1, WorkerKind, QuietLink, FailsCode DEF history
<1> QED BY <1>2, <1>3, <1>4

LEMMA AnswerStep ==
    ASSUME SessionInv, w.pc # "gone", NEW x, Holding(x), NEW code \in 0 .. 3, NEW healthy,
           Answer(x, code, healthy), UNCHANGED faults \/ Fault,
           UNCHANGED <<ui, msgs, pins, history, threads, acts>>,
           link' = link \/ link' \in FarSide
    PROVE  WorkerStep
<1>1. ViewIsKept /\ Holding(w') /\ w'.pc = "post"
  BY AnswerKind
<1> QED BY <1>1, WorkerKind DEF history

LEMMA HostKeyKind == SessionInv /\ HostKey => WorkerStep
<1> SUFFICES ASSUME SessionInv, HostKey PROVE WorkerStep
  OBVIOUS
<1>0. w.pc # "gone" /\ Holding(w)
  BY WorkerHolding DEF HostKey
<1>1. CASE \/ Answer(w, 2, FALSE) /\ UNCHANGED faults
           \/ Fault /\ Answer(w, 1, FALSE)
  <2>1. 1 \in 0 .. 3 /\ 2 \in 0 .. 3
    OBVIOUS
  <2> QED BY <1>0, <1>1, <2>1, AnswerStep DEF HostKey
<1>2. CASE w' = [w EXCEPT !.pc = "auth"] /\ UNCHANGED <<v, faults>>
  <2>1. Holding(w') /\ w'.pc = "auth"
    BY <1>0, <1>2, GoesOn DEF Place
  <2> QED BY <1>0, <1>2, <2>1, KeptView, WorkerKind DEF HostKey, history
<1> QED BY <1>1, <1>2 DEF HostKey
\* Authentication succeeds or fails with or without a client.
LEMMA AuthenticateKind == SessionInv /\ Authenticate => WorkerStep
<1> SUFFICES ASSUME SessionInv, Authenticate PROVE WorkerStep
  OBVIOUS
<1> DEFINE x == [w EXCEPT !.client = threads]
<1>0. w.pc # "gone" /\ Holding(w) /\ v.thread /\ threads \in Nat /\ threads > 0
  BY WorkerHolding, SessionConstants DEF Authenticate, SessionInv, TypeOK, WorkerIsKnown
<1>1. Holding(x)
  <2>1. /\ x \in Thread /\ x.client = threads /\ x.terminal = w.terminal
        /\ x.pending = w.pending
    BY <1>0 DEF Holding, Thread
  <2> HIDE DEF x
  <2> QED BY <1>0, <2>1 DEF Holding
<1>2. /\ UNCHANGED <<ui, msgs, link, pins, history, threads, acts>>
      /\ \/ Answer(x, 0, TRUE) /\ UNCHANGED faults
         \/ \E code \in {1, 3}, client \in {w, x}, healthy \in BOOLEAN :
                Fails(code) /\ Answer(client, code, healthy)
  BY DEF Authenticate
<1> HIDE DEF x
<1>3. CASE Answer(x, 0, TRUE) /\ UNCHANGED faults
  <2>1. 0 \in 0 .. 3
    OBVIOUS
  <2> QED BY <1>0, <1>1, <1>2, <1>3, <2>1, AnswerStep
<1>4. ASSUME NEW code \in {1, 3}, NEW client \in {w, x}, NEW healthy \in BOOLEAN,
             Fails(code), Answer(client, code, healthy)
      PROVE  WorkerStep
  <2>1. Holding(client) /\ code \in 0 .. 3 /\ (UNCHANGED faults \/ Fault)
    BY <1>0, <1>1, <1>4, FailsCode
  <2> QED BY <1>0, <1>2, <1>4, <2>1, AnswerStep
<1> QED BY <1>2, <1>3, <1>4

\* Requests answered with the client as it is.
LEMMA RequestKind ==
    ASSUME SessionInv, Disconnected \/ List \/ EndWrite
    PROVE  WorkerStep
<1>0. w.pc # "gone" /\ Holding(w) /\ 0 \in 0 .. 3 /\ 1 \in 0 .. 3
  <2>1. w.pc \in {"run", "copy"}
    BY DEF Disconnected, List, EndWrite
  <2> QED BY <2>1, WorkerHolding
<1>1. PICK code \in 0 .. 3, healthy \in BOOLEAN :
          Answer(w, code, healthy) /\ (UNCHANGED faults \/ Fault)
  <2>1. CASE Disconnected
    BY <1>0, <2>1 DEF Disconnected
  <2>2. CASE List
    <3>1. CASE Answer(w, 0, TRUE) /\ UNCHANGED faults
      BY <1>0, <3>1
    <3>2. CASE ~(Answer(w, 0, TRUE) /\ UNCHANGED faults)
      BY <2>2, <3>2, FailsCode DEF List
    <3> QED BY <3>1, <3>2
  <2>3. CASE EndWrite
    <3>1. CASE Answer(w, 0, TRUE) /\ UNCHANGED faults
      BY <1>0, <3>1
    <3>2. CASE ~(Answer(w, 0, TRUE) /\ UNCHANGED faults)
      BY <2>3, <3>2, FailsCode DEF EndWrite
    <3> QED BY <3>1, <3>2
  <2> QED BY <2>1, <2>2, <2>3
<1>2. UNCHANGED <<ui, msgs, link, pins, history, threads, acts>>
  BY DEF Disconnected, List, EndWrite
<1> QED BY <1>0, <1>1, <1>2, AnswerStep

LEMMA BeginWriteKind == SessionInv /\ BeginWrite => WorkerStep
<1> SUFFICES ASSUME SessionInv, BeginWrite PROVE WorkerStep
  OBVIOUS
<1>0. w.pc # "gone" /\ Holding(w)
  BY WorkerHolding DEF BeginWrite
<1>1. CASE /\ w' = [w EXCEPT !.pc = "copy"] /\ v' = [v EXCEPT !.code = 0]
           /\ ran' = Append(ran, v.req) /\ UNCHANGED faults
  <2>1. ran' \in Seq(Nat)
    BY <1>1 DEF SessionInv, TypeOK, View
  <2>2. Holding(w') /\ w'.pc = "copy"
    BY <1>0, <1>1, GoesOn DEF Place
  <2>3. ViewIsKept
    BY <1>1, CodeView DEF ViewIsKept
  <2> QED BY <1>0, <1>1, <2>1, <2>2, <2>3, WorkerKind DEF BeginWrite
<1>2. ASSUME NEW code \in {1, 3}, NEW healthy \in BOOLEAN,
             Fails(code), Answer(w, code, healthy), UNCHANGED ran
      PROVE  WorkerStep
  <2>1. code \in 0 .. 3 /\ (UNCHANGED faults \/ Fault)
    BY <1>2, FailsCode
  <2> QED BY <1>0, <1>2, <2>1, AnswerStep DEF BeginWrite, history
<1> QED BY <1>1, <1>2 DEF BeginWrite

LEMMA OpenTerminalKind == SessionInv /\ OpenTerminal => WorkerStep
<1> SUFFICES ASSUME SessionInv, OpenTerminal PROVE WorkerStep
  OBVIOUS
<1> DEFINE x == [w EXCEPT !.terminal = TRUE, !.activity = TRUE]
<1>0. w.pc # "gone" /\ Holding(w) /\ w.client # 0 /\ 0 \in 0 .. 3 /\ 1 \in 0 .. 3
  BY WorkerHolding DEF OpenTerminal
<1>1. Holding(x)
  <2>1. x \in Thread /\ x.client = w.client /\ x.pending = w.pending
    BY <1>0 DEF Holding, Thread
  <2> HIDE DEF x
  <2> QED BY <1>0, <2>1 DEF Holding
<1>2. /\ UNCHANGED <<ui, msgs, pins, history, threads, acts>>
      /\ \/ /\ UNCHANGED faults /\ Answer(x, 0, TRUE)
            /\ link' = [link EXCEPT !.net = FALSE, !.eof = FALSE]
         \/ /\ UNCHANGED link
            /\ \/ UNCHANGED faults /\ Answer(w, 1, TRUE)
               \/ \E code \in {1, 3} : Fails(code) /\ Answer(w, code, FALSE)
  BY DEF OpenTerminal
<1> HIDE DEF x
<1>3. CASE /\ UNCHANGED faults /\ Answer(x, 0, TRUE)
           /\ link' = [link EXCEPT !.net = FALSE, !.eof = FALSE]
  <2>1. link' \in FarSide
    BY <1>3 DEF SessionInv, TypeOK, FarSide
  <2> QED BY <1>0, <1>1, <1>2, <1>3, <2>1, AnswerStep
<1>4. CASE UNCHANGED link /\ UNCHANGED faults /\ Answer(w, 1, TRUE)
  BY <1>0, <1>2, <1>4, AnswerStep
<1>5. ASSUME UNCHANGED link, NEW code \in {1, 3}, Fails(code), Answer(w, code, FALSE)
      PROVE  WorkerStep
  <2>1. code \in 0 .. 3 /\ (UNCHANGED faults \/ Fault)
    BY <1>5, FailsCode
  <2> QED BY <1>0, <1>2, <1>5, <2>1, AnswerStep
<1> QED BY <1>2, <1>3, <1>4, <1>5

\* What the worker posts carries its number.
LEMMA PostedNotice ==
    ASSUME SessionInv, NEW kind \in {"DONE", "OUTPUT", "ENDED"}, NEW b \in BOOLEAN
    PROVE  /\ Post(Note(kind)) => \E m \in Notice : m.thread = threads /\ msgs' = Append(msgs, m)
           /\ Post([Note(kind) EXCEPT !.connected = b]) =>
                  \E m \in Notice : m.thread = threads /\ msgs' = Append(msgs, m)
<1>1. threads \in Nat /\ 0 \in Nat
  BY SessionConstants DEF SessionInv, TypeOK
<1> DEFINE m1 == [Note(kind) EXCEPT !.thread = threads]
           m2 == [[Note(kind) EXCEPT !.connected = b] EXCEPT !.thread = threads]
<1>2. m1 \in Notice /\ m1.thread = threads
  BY <1>1 DEF Note, Notice
<1>3. m2 \in Notice /\ m2.thread = threads
  <2> DEFINE k == [Note(kind) EXCEPT !.connected = b]
  <2>1. k \in Notice
    BY <1>1 DEF Note, Notice
  <2> HIDE DEF k
  <2>2. [k EXCEPT !.thread = threads] \in Notice /\ [k EXCEPT !.thread = threads].thread = threads
    BY <1>1, <2>1 DEF Notice
  <2> QED BY <2>2 DEF k
<1>4. Post(Note(kind)) => msgs' = Append(msgs, m1)
  BY DEF Post
<1>5. Post([Note(kind) EXCEPT !.connected = b]) => msgs' = Append(msgs, m2)
  BY DEF Post
<1> HIDE DEF m1, m2
<1> QED BY <1>2, <1>3, <1>4, <1>5

LEMMA ReplyKind == SessionInv /\ Reply => WorkerStep
<1> SUFFICES ASSUME SessionInv, Reply PROVE WorkerStep
  OBVIOUS
<1>0. w.pc # "gone" /\ Holding(w) /\ ViewIsKept
  BY WorkerHolding, KeptView DEF Reply
<1>1. CASE w' = Idle /\ msgs' = msgs /\ (UNCHANGED faults \/ Fault)
  <2>1. Holding(w')
    BY <1>1, IdleThread DEF Holding
  <2> QED BY <1>0, <1>1, <2>1, WorkerKind DEF Reply, history
<1>2. CASE /\ Post([Note("DONE") EXCEPT !.connected = w.client # 0])
           /\ w' = [w EXCEPT !.pc = "wait"] /\ UNCHANGED faults
  <2>1. \E m \in Notice : m.thread = threads /\ msgs' = Append(msgs, m)
    BY <1>2, PostedNotice
  <2>2. Holding(w') /\ w'.pc = "wait"
    BY <1>0, <1>2, GoesOn DEF Place
  <2> QED BY <1>0, <1>2, <2>1, <2>2, WorkerKind DEF Reply, history
<1> QED BY <1>1, <1>2 DEF Reply

LEMMA EndTerminalHolding ==
    ASSUME SessionInv, NEW x, Holding(x), EndTerminal(x)
    PROVE  /\ Holding(w') /\ w'.pc = "wait" /\ (UNCHANGED faults \/ Fault)
           /\ w'.pending = x.pending /\ w'.client = 0
           /\ \/ msgs' = msgs
              \/ \E m \in Notice : m.thread = threads /\ msgs' = Append(msgs, m)
<1> DEFINE y == Closed(x)
<1>1. Holding(y) /\ y.pending = x.pending /\ y.client = 0
  BY ClosedHolding
<1>2. w' = [y EXCEPT !.pc = "wait"] /\ "wait" \in Place
  BY DEF EndTerminal, Place
<1> HIDE DEF y
<1>3. w'.pending = y.pending /\ w'.client = y.client
  BY <1>1, <1>2 DEF Holding, Thread
<1>4. \/ Post(Note("ENDED")) /\ UNCHANGED faults
      \/ Fault /\ UNCHANGED msgs
  BY DEF EndTerminal
<1> QED BY <1>1, <1>2, <1>3, <1>4, GoesOn, PostedNotice

LEMMA ReadKind == SessionInv /\ Read => WorkerStep
<1> SUFFICES ASSUME SessionInv, Read PROVE WorkerStep
  OBVIOUS
<1>0. w.pc # "gone" /\ Holding(w) /\ w.pc = "read"
  BY WorkerHolding DEF Read
<1>1. CASE EndTerminal(w) /\ UNCHANGED <<v, link>>
  BY <1>0, <1>1, EndTerminalHolding, KeptView, WorkerKind DEF Read, history
<1>2. CASE w' = [w EXCEPT !.pc = "wait"] /\ UNCHANGED <<v, link, msgs, faults>>
  <2>1. Holding(w') /\ w'.pc = "wait"
    BY <1>0, <1>2, GoesOn DEF Place
  <2> QED BY <1>0, <1>2, <2>1, KeptView, WorkerKind DEF Read, history
<1>3. ASSUME NEW n \in 1 .. (IF link.avail < w.room THEN link.avail ELSE w.room),
             v' = [v EXCEPT !.output = @ + n, !.output_posted = TRUE],
             link' = [link EXCEPT !.avail = @ - n],
             w' = [w EXCEPT !.pc = "wait", !.activity = TRUE],
             IF Signalled(v)
             THEN \/ Post(Note("OUTPUT")) /\ UNCHANGED faults
                  \/ Fault /\ UNCHANGED msgs
             ELSE UNCHANGED <<msgs, faults>>
      PROVE  WorkerStep
  <2>0. v \in View /\ link \in FarSide /\ v.output \in Nat /\ w.room \in Nat /\ link.avail \in Nat
    BY SessionConstants DEF SessionInv, TypeOK, View, Thread, FarSide
  <2>1. n \in Nat /\ n <= w.room /\ n <= link.avail
    BY <1>3, <2>0
  <2>2. v.output + n \in 0 .. OutputCap
    BY <1>0, <2>0, <2>1, SessionConstants DEF SessionInv, RoomIsFree
  <2>3. ViewIsKept
    BY <1>3, <2>0, <2>2 DEF ViewIsKept, View
  <2>4. link.avail - n \in Nat
    BY <2>0, <2>1
  <2>5. link' \in FarSide
    BY <1>3, <2>0, <2>4 DEF FarSide
  <2>6. Holding(w') /\ w'.pc = "wait"
    <3>1. /\ w' \in Thread /\ w'.pc = "wait" /\ w'.client = w.client
          /\ w'.terminal = w.terminal /\ w'.pending = w.pending
      BY <1>0, <1>3 DEF Holding, Thread, Place
    <3> QED BY <1>0, <3>1 DEF Holding
  <2>7. \/ UNCHANGED <<msgs, faults>>
        \/ Fault /\ UNCHANGED msgs
        \/ /\ UNCHANGED faults
           /\ \E m \in Notice : m.thread = threads /\ msgs' = Append(msgs, m)
    BY <1>3, PostedNotice
  <2> QED BY <1>0, <2>3, <2>5, <2>6, <2>7, WorkerKind DEF Read, history
<1> QED BY <1>1, <1>2, <1>3 DEF Read
-----------------------------------------------------------------------------
(* terminal_pump: input leaves the view, or what was left of the last write. *)

Taken == IF w.pending = <<>> THEN v.input ELSE w.pending

\* The pump of a worker that is not told to stop.
PumpStep ==
    /\ w.client = threads /\ threads > 0 /\ v.thread
    /\ v' \in View /\ v'.thread = v.thread /\ v'.connected = v.connected
    /\ v'.output = v.output /\ v'.pending_command = v.pending_command
    /\ v'.input = IF w.pending = <<>> THEN <<>> ELSE v.input
    /\ w' \in Thread /\ w'.client \in {0, threads} /\ (w'.terminal => w'.client # 0)
    /\ w'.pc # "gone" /\ (w'.pc = "read" => w'.room = OutputCap - v.output)
    /\ link' \in FarSide /\ faults' \in 0 .. MaxFaults
    /\ msgs' = msgs \/ \E m \in Notice : m.thread = threads /\ msgs' = Append(msgs, m)
    /\ UNCHANGED <<ui, pins, asked, ran, threads, acts>>
    /\ \/ w'.pending = Taken /\ sent' = sent
       \/ /\ w'.pending = <<>>
          /\ sent' = sent \o [i \in 1 .. Len(Taken) |-> <<Taken[i], threads>>]

LEMMA PumpKind == SessionInv /\ Pump => WorkerStep \/ PumpStep
<1> SUFFICES ASSUME SessionInv, Pump PROVE WorkerStep \/ PumpStep
  OBVIOUS
<1>0. /\ w.pc = "wait" /\ Holding(w) /\ w.terminal /\ w.client = threads
      /\ v \in View /\ v.thread /\ threads > 0 /\ v.output \in 0 .. OutputCap
      /\ v.input \in Seq(Command) /\ w.pending \in Seq(Command) /\ link \in FarSide
  BY WorkerHolding DEF Pump, SessionInv, WorkerIsKnown, TypeOK, View, Holding, Thread
<1>1. CASE v.stopping
  <2>1. v' = [v EXCEPT !.input_event = FALSE] /\ w' = Idle
        /\ UNCHANGED <<msgs, link, sent, faults>>
    BY <1>1 DEF Pump
  <2>2. ViewIsKept
    BY <1>0, <2>1 DEF View, ViewIsKept
  <2>3. Holding(w')
    BY <2>1, IdleThread DEF Holding
  <2> QED BY <1>0, <2>1, <2>2, <2>3, WorkerKind DEF Pump
<1>2. CASE ~v.stopping
  <2> DEFINE x == [w EXCEPT !.pending = Taken, !.room = OutputCap - v.output,
                            !.activity = Taken # <<>>]
  <2>1. /\ v' = [v EXCEPT !.input_event = FALSE,
                          !.input = IF w.pending = <<>> THEN <<>> ELSE @]
        /\ link' = [link EXCEPT !.net = @ /\ (v.input_event \/ v.cancel)]
        /\ \/ EndTerminal(x) /\ UNCHANGED sent
           \/ /\ sent' = sent \o [i \in 1 .. Len(Taken) |-> <<Taken[i], w.client>>]
              /\ w' = [x EXCEPT !.pending = <<>>, !.pc = IF x.room > 0 THEN "read" ELSE "wait"]
              /\ UNCHANGED <<msgs, faults>>
        /\ UNCHANGED <<ui, pins, asked, ran, threads, acts>>
    BY <1>2 DEF Pump, Taken
  <2>2. /\ v' \in View /\ v'.thread = v.thread /\ v'.connected = v.connected
        /\ v'.output = v.output /\ v'.pending_command = v.pending_command
        /\ v'.input = IF w.pending = <<>> THEN <<>> ELSE v.input
    <3>1. <<>> \in Seq(Command)
      OBVIOUS
    <3>2. CASE w.pending = <<>>
      BY <1>0, <2>1, <3>1, <3>2, ZenonT(40) DEF View
    <3>3. CASE w.pending # <<>>
      BY <1>0, <2>1, <3>3, ZenonT(40) DEF View
    <3> QED BY <3>2, <3>3
  <2>3. link' \in FarSide
    <3>1. (link.net /\ (v.input_event \/ v.cancel)) \in BOOLEAN
      OBVIOUS
    <3> QED BY <1>0, <2>1, <3>1 DEF FarSide
  <2>4. /\ x \in Thread /\ x.client = threads /\ x.terminal /\ x.pending = Taken
        /\ x.room = OutputCap - v.output /\ x.pc = "wait"
    <3>1. Taken \in Seq(Command) /\ OutputCap - v.output \in 0 .. OutputCap
      BY <1>0, SessionConstants DEF Taken
    <3>2. (Taken # <<>>) \in BOOLEAN
      OBVIOUS
    <3> QED BY <1>0, <3>1, <3>2 DEF Holding, Thread
  <2> HIDE DEF x
  <2>5. CASE EndTerminal(x) /\ UNCHANGED sent
    <3> DEFINE y == Closed(x)
    <3>1. 0 \in Nat /\ "wait" \in Place
      BY DEF Place
    <3>2. y \in Thread /\ y.client = 0 /\ ~y.terminal /\ y.pending = Taken
      BY <2>4, <3>1 DEF Closed, Thread
    <3>3. w' = [y EXCEPT !.pc = "wait"]
      BY <2>5 DEF EndTerminal
    <3>4. \/ Post(Note("ENDED")) /\ UNCHANGED faults
          \/ Fault /\ UNCHANGED msgs
      BY <2>5 DEF EndTerminal
    <3> HIDE DEF y
    <3>5. /\ w' \in Thread /\ w'.pc = "wait" /\ w'.client = 0 /\ ~w'.terminal
          /\ w'.pending = Taken
      BY <3>1, <3>2, <3>3 DEF Thread
    <3>6. faults' \in 0 .. MaxFaults
      BY <3>4, Counters
    <3>7. msgs' = msgs \/ \E m \in Notice : m.thread = threads /\ msgs' = Append(msgs, m)
      BY <3>4, PostedNotice
    <3> QED BY <1>0, <2>1, <2>2, <2>3, <2>5, <3>5, <3>6, <3>7 DEF PumpStep
  <2>6. CASE /\ sent' = sent \o [i \in 1 .. Len(Taken) |-> <<Taken[i], w.client>>]
             /\ w' = [x EXCEPT !.pending = <<>>, !.pc = IF x.room > 0 THEN "read" ELSE "wait"]
             /\ UNCHANGED <<msgs, faults>>
    <3>1. <<>> \in Seq(Command) /\ (IF x.room > 0 THEN "read" ELSE "wait") \in Place
      BY DEF Place
    <3>2. /\ w' \in Thread /\ w'.client = x.client /\ w'.terminal = x.terminal
          /\ w'.pending = <<>> /\ w'.room = x.room
          /\ w'.pc = IF x.room > 0 THEN "read" ELSE "wait"
      BY <2>4, <2>6, <3>1 DEF Thread
    <3>3. w'.pc # "gone"
      BY <3>2
    <3>4. faults' \in 0 .. MaxFaults
      BY <2>6, Counters
    <3>5. sent' = sent \o [i \in 1 .. Len(Taken) |-> <<Taken[i], threads>>]
      BY <1>0, <2>6
    <3>6. msgs' = msgs
      BY <2>6
    <3>7. /\ w' \in Thread /\ w'.client = threads /\ w'.terminal /\ w'.pending = <<>>
          /\ w'.room = OutputCap - v.output
      BY <2>4, <3>2
    <3>8. w'.client \in {0, threads} /\ w'.client # 0
      BY <1>0, <3>7
    <3>9. UNCHANGED <<ui, pins, asked, ran, threads, acts>>
      BY <2>1
    <3> QED BY <1>0, <2>2, <2>3, <3>3, <3>4, <3>5, <3>6, <3>7, <3>8, <3>9 DEF PumpStep
  <2> QED BY <2>1, <2>5, <2>6
<1> QED BY <1>1, <1>2

LEMMA TakenType == SessionInv => Taken \in Seq(Command)
BY DEF SessionInv, TypeOK, View, Thread, Taken

\* A sequence of sent commands, and what is written after it.
LEMMA SentOn ==
    ASSUME sent \in Seq(Command \X Nat), NEW t \in Seq(Command), NEW n \in Nat,
           NEW s, s = sent \o [i \in 1 .. Len(t) |-> <<t[i], n>>]
    PROVE  /\ s \in Seq(Command \X Nat) /\ Len(s) = Len(sent) + Len(t)
           /\ Len(sent) \in Nat /\ Len(t) \in Nat
           /\ \A i \in 1 .. Len(sent) : s[i] = sent[i]
           /\ \A i \in 1 .. Len(s) :
                 i \in 1 .. Len(sent)
                 \/ /\ i - Len(sent) \in 1 .. Len(t)
                    /\ s[i] = <<t[i - Len(sent)], n>>
<1> DEFINE u == [i \in 1 .. Len(t) |-> <<t[i], n>>]
<1>1. u \in Seq(Command \X Nat) /\ Len(u) = Len(t)
  OBVIOUS
<1>2. \A i \in 1 .. Len(t) : u[i] = <<t[i], n>>
  OBVIOUS
<1> HIDE DEF u
<1>3. s = sent \o u
  BY DEF u
<1> QED BY <1>1, <1>2, <1>3

LEMMA PumpSession == SessionInv /\ PumpStep => SessionInv'
<1> SUFFICES ASSUME SessionInv, PumpStep PROVE SessionInv'
  OBVIOUS
<1>0. sent' \in Seq(Command \X Nat)
  <2>1. sent \in Seq(Command \X Nat) /\ threads \in Nat
    BY SessionConstants DEF SessionInv, TypeOK
  <2> QED BY <2>1, TakenType, SentOn DEF PumpStep
<1>1. msgs' \in Seq(Notice)
  BY QueueType DEF PumpStep, SessionInv, TypeOK
<1>2. TypeOK'
  BY <1>0, <1>1 DEF PumpStep, SessionInv, TypeOK
<1>3. RoomIsFree'
  <2>1. v.output \in Nat /\ OutputCap \in Nat
    BY SessionConstants DEF SessionInv, TypeOK, View
  <2> QED BY <2>1 DEF PumpStep, RoomIsFree
<1>4. WorkerIsKnown' /\ ViewIsAlone' /\ ConnectsLeft'
  BY DEF PumpStep, SessionInv, WorkerIsKnown, ViewIsAlone, ConnectsLeft
<1>5. MessagesOfThisWorker'
  <2>1. CASE msgs' = msgs
    BY <2>1 DEF PumpStep, SessionInv, MessagesOfThisWorker
  <2>2. ASSUME NEW m \in Notice, m.thread = threads, msgs' = Append(msgs, m)
        PROVE  MessagesOfThisWorker'
    <3>1. msgs \in Seq(Notice)
      BY DEF SessionInv, TypeOK
    <3>2. Len(msgs') = Len(msgs) + 1 /\ Len(msgs) \in Nat
      BY <2>2, <3>1
    <3>3. \A i \in 1 .. Len(msgs') : (i \in 1 .. Len(msgs) /\ msgs'[i] = msgs[i]) \/ msgs'[i] = m
      BY <2>2, <3>1, <3>2
    <3> QED BY <2>2, <3>3 DEF PumpStep, SessionInv, MessagesOfThisWorker
  <2> QED BY <2>1, <2>2 DEF PumpStep
<1> QED BY <1>2, <1>3, <1>4, <1>5 DEF SessionInv

LEMMA PumpCommands == SessionInv /\ CommandInv /\ PumpStep => CommandInv'
<1> SUFFICES ASSUME SessionInv, CommandInv, PumpStep PROVE CommandInv'
  OBVIOUS
<1>0. /\ v.input \in Seq(Command) /\ w.pending \in Seq(Command)
      /\ sent \in Seq(Command \X Nat) /\ threads \in Nat /\ threads > 0
      /\ Taken \in Seq(Command)
  BY TakenType, SessionConstants DEF SessionInv, TypeOK, View, Thread, PumpStep
<1>1. /\ v'.pending_command = v.pending_command /\ UNCHANGED <<asked, threads>>
      /\ v'.input = IF w.pending = <<>> THEN <<>> ELSE v.input
  BY DEF PumpStep
\* What is taken was asked for in this connection, once, and not yet sent.
<1>2. /\ NeverTwice(Taken) /\ Disjoint(v'.input, Taken) /\ Unsent(Taken)
      /\ \A i \in 1 .. Len(Taken) : asked[Taken[i]] = threads
      /\ v.pending_command # NoCommand => Without(v.pending_command, Taken)
  <2>1. CASE w.pending = <<>>
    BY <1>0, <1>1, <2>1 DEF Taken, CommandInv, InOnePlace, AskedNow, Disjoint
  <2>2. CASE w.pending # <<>>
    BY <1>0, <1>1, <2>2 DEF Taken, CommandInv, InOnePlace, AskedNow
  <2> QED BY <2>1, <2>2
<1>3. /\ NeverTwice(v'.input) /\ Unsent(v'.input)
      /\ \A i \in 1 .. Len(v'.input) : asked[v'.input[i]] = threads
      /\ v.pending_command # NoCommand => Without(v.pending_command, v'.input)
  <2>1. CASE w.pending = <<>>
    BY <1>1, <2>1 DEF NeverTwice, Unsent, Without
  <2>2. CASE w.pending # <<>>
    BY <1>1, <2>2 DEF CommandInv, InOnePlace, AskedNow
  <2> QED BY <2>1, <2>2
<1>4. CASE w'.pending = Taken /\ sent' = sent
  <2>1. AskedNow'
    BY <1>1, <1>2, <1>3, <1>4 DEF AskedNow, CommandInv
  <2>2. InOnePlace'
    BY <1>1, <1>2, <1>3, <1>4 DEF InOnePlace, CommandInv, Unsent
  <2>3. SentSomewhere' /\ CommandsOnce'
    BY <1>1, <1>4 DEF CommandInv, SentSomewhere, CommandsOnce
  <2> QED BY <2>1, <2>2, <2>3 DEF CommandInv
<1>5. CASE /\ w'.pending = <<>>
           /\ sent' = sent \o [i \in 1 .. Len(Taken) |-> <<Taken[i], threads>>]
  <2> DEFINE n == Len(sent)
  <2>1. /\ Len(sent') = n + Len(Taken) /\ n \in Nat /\ Len(Taken) \in Nat
        /\ \A i \in 1 .. n : sent'[i] = sent[i]
        /\ \A i \in 1 .. Len(sent') :
              i \in 1 .. n \/ (i - n \in 1 .. Len(Taken) /\ sent'[i] = <<Taken[i - n], threads>>)
    BY <1>0, <1>5, SentOn
  <2> HIDE DEF n
  <2>2. AskedNow'
    BY <1>1, <1>3, <1>5 DEF AskedNow, CommandInv
  <2>3. Unsent(v.input)'
    <3> SUFFICES ASSUME NEW i \in 1 .. Len(sent'), NEW j \in 1 .. Len(v'.input)
                 PROVE  sent'[i][1] # v'.input[j]
      BY DEF Unsent
    <3>1. CASE i \in 1 .. n
      BY <1>3, <2>1, <3>1 DEF Unsent, n
    <3>2. CASE i - n \in 1 .. Len(Taken) /\ sent'[i] = <<Taken[i - n], threads>>
      BY <1>2, <3>2 DEF Disjoint
    <3> QED BY <2>1, <3>1, <3>2
  <2>4. ASSUME v'.pending_command # NoCommand, NEW i \in 1 .. Len(sent')
        PROVE  sent'[i][1] # v'.pending_command
    <3>1. CASE i \in 1 .. n
      BY <1>1, <2>1, <2>4, <3>1 DEF CommandInv, InOnePlace, n
    <3>2. CASE i - n \in 1 .. Len(Taken) /\ sent'[i] = <<Taken[i - n], threads>>
      BY <1>1, <1>2, <2>4, <3>2 DEF Without
    <3> QED BY <2>1, <3>1, <3>2
  <2>5. InOnePlace'
    <3>1. NeverTwice(v'.input) /\ NeverTwice(w'.pending) /\ Disjoint(v'.input, w'.pending)
      BY <1>3, <1>5 DEF NeverTwice, Disjoint
    <3>2. Unsent(w.pending)'
      BY <1>5 DEF Unsent
    <3>3. v'.pending_command # NoCommand =>
              Without(v'.pending_command, v'.input) /\ Without(v'.pending_command, w'.pending)
      BY <1>1, <1>3, <1>5 DEF Without
    <3> QED BY <2>3, <2>4, <3>1, <3>2, <3>3 DEF InOnePlace
  <2>6. SentSomewhere'
    <3>1. \A i \in 1 .. Len(sent') : i \in 1 .. n => sent'[i][2] # 0
      BY <2>1 DEF CommandInv, SentSomewhere, n
    <3> QED BY <1>0, <2>1, <3>1 DEF SentSomewhere
  <2>7. \A i \in 1 .. Len(sent') : asked'[sent'[i][1]] = sent'[i][2]
    <3> TAKE i \in 1 .. Len(sent')
    <3>1. CASE i \in 1 .. n
      BY <1>1, <2>1, <3>1 DEF CommandInv, CommandsOnce, n
    <3>2. CASE i - n \in 1 .. Len(Taken) /\ sent'[i] = <<Taken[i - n], threads>>
      BY <1>1, <1>2, <3>2
    <3> QED BY <2>1, <3>1, <3>2
  <2>8. ASSUME NEW i \in 1 .. Len(sent'), NEW j \in 1 .. Len(sent'), i < j
        PROVE  sent'[i][1] # sent'[j][1]
    <3>1. CASE i \in 1 .. n /\ j \in 1 .. n
      BY <2>1, <2>8, <3>1 DEF CommandInv, CommandsOnce, n
    <3>2. CASE /\ i \in 1 .. n
               /\ j - n \in 1 .. Len(Taken) /\ sent'[j] = <<Taken[j - n], threads>>
      BY <1>2, <2>1, <3>2 DEF Unsent, n
    <3>3. CASE /\ i - n \in 1 .. Len(Taken) /\ sent'[i] = <<Taken[i - n], threads>>
               /\ j - n \in 1 .. Len(Taken) /\ sent'[j] = <<Taken[j - n], threads>>
      <4>1. i - n # j - n
        BY <2>1, <2>8
      <4>2. Taken[i - n] # Taken[j - n]
        BY <1>2, <3>3, <4>1 DEF NeverTwice
      <4> QED BY <3>3, <4>2
    <3>4. j \in 1 .. n => i \in 1 .. n
      BY <2>1, <2>8
    <3> QED BY <2>1, <3>1, <3>2, <3>3, <3>4
  <2>9. CommandsOnce'
    BY <2>7, <2>8 DEF CommandsOnce
  <2> QED BY <2>2, <2>5, <2>6, <2>9 DEF CommandInv
<1> QED BY <1>4, <1>5 DEF PumpStep
-----------------------------------------------------------------------------
(* The far side, and all steps together. *)

FarSideStep ==
    /\ link' \in FarSide /\ faults' \in 0 .. MaxFaults
    /\ UNCHANGED <<v, ui, w, msgs, pins, history, threads, acts>>

LEMMA FarSideKind ==
    ASSUME SessionInv, Produce \/ Exit \/ Break \/ UNCHANGED vars
    PROVE  FarSideStep
<1>0. link \in FarSide /\ link.avail + 1 \in Nat
  BY DEF SessionInv, TypeOK, FarSide
<1>1. CASE Produce
  <2>1. link.made + 1 \in 0 .. MaxOutput
    BY <1>0, <1>1, SessionConstants DEF Produce, FarSide
  <2>2. link' \in FarSide
    BY <1>0, <1>1, <2>1 DEF Produce, FarSide
  <2> QED BY <1>1, <2>2, Counters DEF Produce, FarSideStep
<1>2. CASE Exit
  <2>1. link' \in FarSide
    BY <1>0, <1>2 DEF Exit, FarSide
  <2> QED BY <1>2, <2>1, Counters DEF Exit, FarSideStep
<1>3. CASE Break
  <2>1. link' \in FarSide
    BY <1>0, <1>3 DEF Break, FarSide
  <2> QED BY <1>3, <2>1, Counters DEF Break, FarSideStep
<1>4. CASE UNCHANGED vars
  BY <1>0, <1>4, Counters DEF vars, history, FarSideStep
<1> QED BY <1>1, <1>2, <1>3, <1>4

LEMMA FarSideSession == SessionInv /\ FarSideStep => SessionInv'
BY DEF SessionInv, FarSideStep, history, TypeOK, RoomIsFree, WorkerIsKnown, ViewIsAlone,
       ConnectsLeft, MessagesOfThisWorker

LEMMA FarSideCommands == CommandInv /\ FarSideStep => CommandInv'
BY DEF CommandInv, FarSideStep, history, AskedNow, InOnePlace, NeverTwice, Disjoint,
       Unsent, Without, SentSomewhere, CommandsOnce

\* The kinds cover every step.
LEMMA StepKinds ==
    ASSUME SessionInv, [Next]_vars
    PROVE  InterfaceStep \/ StopStep \/ WorkerStep \/ PumpStep \/ FarSideStep \/ StartWorker
<1>1. CASE Worker
  BY <1>1, WakeKind, ConnectKind, HostKeyKind, AuthenticateKind, RequestKind, BeginWriteKind,
     OpenTerminalKind, ReplyKind, PumpKind, ReadKind DEF Worker
<1>2. CASE Interface
  BY <1>2, JoinedKind, WriteRequestKind, DoneKind, NoticeKinds DEF Interface
<1>3. CASE User
  BY <1>3, DialogKinds, NoWorkerKind, RequestKinds, FinishKinds, RunKind, TypeKind DEF User
<1>4. CASE Produce \/ Exit \/ Break \/ UNCHANGED vars
  BY <1>4, FarSideKind
<1> QED BY <1>1, <1>2, <1>3, <1>4 DEF Next

LEMMA NextSession == SessionInv /\ [Next]_vars => SessionInv'
BY StepKinds, InterfaceSession, StopSession, WorkerSession, PumpSession, FarSideSession,
   StartWorkerSession

LEMMA NextCommands == SessionInv /\ CommandInv /\ [Next]_vars => CommandInv'
BY StepKinds, InterfaceCommands, StopCommands, WorkerCommands, PumpCommands,
   FarSideCommands, StartWorkerCommands

LEMMA InitSession == Init => SessionInv /\ CommandInv
<1> SUFFICES ASSUME Init PROVE SessionInv /\ CommandInv
  OBVIOUS
<1>1. /\ 0 \in Nat /\ 0 \in 0 .. 3 /\ 0 \in 0 .. OutputCap /\ <<>> \in Seq(Command)
      /\ 0 \in 0 .. MaxOutput /\ 0 \in 0 .. MaxConnects /\ 0 \in 0 .. MaxActs
      /\ 0 \in 0 .. MaxFaults /\ "connect" \in Job /\ "gone" \in Place
  BY SessionConstants DEF Job, Place
<1>2. v \in View
  BY <1>1 DEF Init, View
<1>3. w \in Thread
  BY <1>1 DEF Init, Idle, Thread
<1>4. link \in FarSide
  BY <1>1 DEF Init, Quiet, FarSide
<1>5. asked \in [Command -> Nat] /\ sent \in Seq(Command \X Nat) /\ ran \in Seq(Nat)
      /\ msgs \in Seq(Notice)
  BY DEF Init
<1>6. TypeOK
  BY <1>1, <1>2, <1>3, <1>4, <1>5 DEF Init, TypeOK
<1>7. /\ ~v.thread /\ ~v.connected /\ v.input = <<>> /\ v.pending_command = NoCommand
      /\ w = Idle /\ w.pc = "gone" /\ w.client = 0 /\ ~w.terminal /\ w.pending = <<>>
  BY DEF Init, Idle
<1>8. RoomIsFree /\ WorkerIsKnown /\ ViewIsAlone /\ ConnectsLeft /\ MessagesOfThisWorker
  BY <1>7 DEF Init, RoomIsFree, WorkerIsKnown, ViewIsAlone, ConnectsLeft, MessagesOfThisWorker
<1>9. CommandInv
  BY <1>7 DEF Init, CommandInv, AskedNow, InOnePlace, NeverTwice, Disjoint, Unsent,
     SentSomewhere, CommandsOnce
<1> QED BY <1>6, <1>8, <1>9 DEF SessionInv

LEMMA SessionAlways == Spec => [](SessionInv /\ CommandInv)
BY InitSession, NextSession, NextCommands, PTL DEF Spec

\* The view, the worker, the two buffers and the message queue keep their
\* types and bounds: in particular the worker never overfills the output
\* buffer with what it has read since it measured the room (terminal_pump).
THEOREM SessionTypeCorrect == Spec => []TypeOK
<1>1. SessionInv => TypeOK
  BY DEF SessionInv
<1> QED BY <1>1, SessionAlways, PTL

\* The view never takes an answer, output or notice of an earlier worker for
\* one of the present connection (stop_worker, finish, terminal_drain).
THEOREM MessagesBelong == Spec => []MessagesOfThisWorker
<1>1. SessionInv => MessagesOfThisWorker
  BY DEF SessionInv
<1> QED BY <1>1, SessionAlways, PTL

\* A command is written to a shell at most once and never to the shell of a
\* later connection, however often the user cancels, disconnects, reconnects
\* or fills the buffers (ssh_view_run, terminal_send, terminal_pump).
THEOREM CommandsSentOnce == Spec => []CommandsOnce
<1>1. CommandInv => CommandsOnce
  BY DEF CommandInv
<1> QED BY <1>1, SessionAlways, PTL
=============================================================================
