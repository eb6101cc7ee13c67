------------------------------- MODULE Gateway -------------------------------
(* The OpenClaw channel of src/aegis/gateway_rpc.py and the executors of
   reference_packs.py that run a command in a terminal of it.

   The steps of a plan that name the same action share an executor, and with it
   one persistent channel. A step opens a terminal, waits for the prompt of its
   shell, types the command and Enter, and reads events until it sees the marker
   that the command prints last. The channel hands out the events of all its
   terminals in the order they came: receive_event goes by the name of the event
   and not by its session.                                                     *)
EXTENDS Naturals, Sequences

CONSTANTS
  LastCommand,   \* the plan's terminal steps are 1..LastCommand
  Confirms,      \* how each is confirmed: by its marker, or by a receipt file as a probe
  MaxReads       \* bound: events a wait reads before it gives up (32 in the code)

Commands == 1..LastCommand

ASSUME GatewayAssumption ==
  LastCommand \in Nat /\ MaxReads \in Nat /\ Confirms \in [Commands -> {"marker", "receipt"}]

VARIABLES
  opened,     \* the terminals that were opened over the socket there is now
  frames,     \* the events that were not received yet: pending, or on the socket
  shell,      \* the terminal of each command, and what was typed into it
  ran,        \* how often each command ran
  command,    \* the command that is executed now
  phase,      \* where its executor is
  count,      \* the events read in this wait
  outcome     \* the observation of each command

gatewayVars == <<opened, frames, shell, ran, command, phase, count, outcome>>

GatewayInit ==
  /\ opened = {}
  /\ frames = <<>>
  /\ shell = [c \in Commands |-> "none"]
  /\ ran = [c \in Commands |-> 0]
  /\ command = 1
  /\ phase = "open"
  /\ count = 0
  /\ outcome = [c \in Commands |-> "none"]

Frame(c, what) == [from |-> c, what |-> what]
\* the events of a terminal go to the connection that opened it
Emit(e) == frames' = IF e.from \in opened THEN Append(frames, e) ELSE frames

-----------------------------------------------------------------------------
(* The shells at the other end                                               *)

\* startup output ends with the prompt
ShellStarts(c) ==
  /\ shell[c] = "starting"
  /\ shell' = [shell EXCEPT ![c] = "ready"]
  /\ Emit(Frame(c, "prompt"))
  /\ UNCHANGED <<opened, ran, command, phase, count, outcome>>

\* the submitted command runs and prints its marker; a probe writes it to its receipt
\* and prints other output
ShellRuns(c) ==
  /\ shell[c] = "submitted"
  /\ shell' = [shell EXCEPT ![c] = "ran"]
  /\ ran' = [ran EXCEPT ![c] = @ + 1]
  /\ Emit(Frame(c, IF Confirms[c] = "receipt" THEN "output" ELSE "marker"))
  /\ UNCHANGED <<opened, command, phase, count, outcome>>

\* and the shell prompts again
ShellPrompts(c) ==
  /\ shell[c] = "ran"
  /\ shell' = [shell EXCEPT ![c] = "prompting"]
  /\ Emit(Frame(c, "prompt"))
  /\ UNCHANGED <<opened, ran, command, phase, count, outcome>>

-----------------------------------------------------------------------------
(* The executor                                                              *)

\* terminal.open, over a connection that is made if there is none
OpenTerminal ==
  /\ phase = "open" /\ command \in Commands
  /\ opened' = opened \cup {command}
  /\ shell' = [shell EXCEPT ![command] = "starting"]
  /\ phase' = "ready"
  /\ count' = 0
  /\ UNCHANGED <<frames, ran, command, outcome>>

Receive == frames # <<>> /\ frames' = Tail(frames) /\ count' = count + 1

\* _wait_for_terminal_ready: the next event with a prompt in it
IsPrompt(e) == e.what = "prompt"
AwaitReady ==
  /\ phase = "ready" /\ count < MaxReads
  /\ Receive
  /\ phase' = IF IsPrompt(Head(frames)) THEN "type" ELSE phase
  /\ UNCHANGED <<opened, shell, ran, command, outcome>>

\* terminal.input of the line, which the terminal echoes; a shell that is still
\* starting is taken to lose it, echoed or not
Type ==
  /\ phase = "type"
  /\ \/ Emit(Frame(command, "echo"))
     \/ shell[command] # "ready" /\ UNCHANGED frames
  /\ shell' = [shell EXCEPT ![command] = IF @ = "ready" THEN "typed" ELSE @]
  /\ phase' = "enter"
  /\ UNCHANGED <<opened, ran, command, count, outcome>>

\* terminal.input of the line feed
Enter ==
  /\ phase = "enter"
  /\ shell' = [shell EXCEPT ![command] = IF @ = "typed" THEN "submitted" ELSE @]
  /\ phase' = "marker"
  /\ count' = 0
  /\ UNCHANGED <<opened, frames, ran, command, outcome>>

\* Fault: the line that ends a command is taken for the end of any command.
AnyMarker(e, c) == e.what = "marker"
\* the marker, alone on a line; a probe takes it in any text, and the first that holds
\* it is the echo of the probe's own line
IsMarker(e, c) ==
  e.from = c /\ e.what = (IF Confirms[c] = "receipt" THEN "echo" ELSE "marker")

\* a probe leaves a receipt file when it has run; it is looked for at each event
Receipt(c) == ran[c] > 0

\* the wait ends at the marker, or at the receipt, or after MaxReads events
AwaitMarker ==
  LET seen == IsMarker(Head(frames), command)
      ends == seen \/ (Confirms[command] = "receipt" /\ Receipt(command)) \/ count + 1 = MaxReads
  IN
  /\ phase = "marker"
  /\ Receive
  /\ phase' = IF ends THEN "close" ELSE "marker"
  /\ outcome' = [outcome EXCEPT ![command] = CASE ~ends -> @
                                             [] ends /\ Confirms[command] = "receipt" -> "look"
                                             [] ends /\ Confirms[command] = "marker" ->
                                                  IF seen THEN "succeeded" ELSE "failed"]
  /\ UNCHANGED <<opened, shell, ran, command>>

\* terminal.close; a probe reads its receipt after it
Close ==
  /\ phase = "close"
  /\ outcome' = [outcome EXCEPT ![command] = IF @ # "look" THEN @
                                             ELSE IF Receipt(command) THEN "succeeded" ELSE "failed"]
  /\ phase' = "open" /\ command' = command + 1
  /\ UNCHANGED <<opened, frames, shell, ran, count>>

\* an RPC or a receive fails or times out, or no prompt comes: the socket and its
\* events are discarded, and the outcome is unknown
Breaks ==
  /\ \/ phase # "open"
     \/ phase = "open" /\ command \in Commands
  /\ opened' = {}
  /\ frames' = <<>>
  /\ outcome' = [outcome EXCEPT ![command] = "unknown"]
  /\ phase' = "open" /\ command' = command + 1
  /\ UNCHANGED <<shell, ran, count>>

\* 32 events without a prompt: an error of the executor's, the channel stays
GivesUp ==
  /\ phase = "ready" /\ count = MaxReads
  /\ outcome' = [outcome EXCEPT ![command] = "unknown"]
  /\ phase' = "open" /\ command' = command + 1
  /\ UNCHANGED <<opened, frames, shell, ran, count>>

GatewayNext ==
  \/ \E c \in Commands : ShellStarts(c) \/ ShellRuns(c) \/ ShellPrompts(c)
  \/ OpenTerminal \/ AwaitReady \/ Type \/ Enter \/ AwaitMarker \/ Close \/ Breaks \/ GivesUp

GatewaySpec == GatewayInit /\ [][GatewayNext]_gatewayVars

-----------------------------------------------------------------------------
(* Properties                                                                *)

GatewayTypeOK ==
  /\ opened \subseteq Commands
  /\ command \in 1..(LastCommand + 1)
  /\ phase \in {"open", "ready", "type", "enter", "marker", "close"}
  /\ count \in 0..MaxReads
  /\ \A c \in Commands :
       /\ shell[c] \in {"none", "starting", "ready", "typed", "submitted", "ran", "prompting"}
       /\ outcome[c] \in {"none", "look", "succeeded", "failed", "unknown"}

\* Whatever events of other terminals are still on the channel, a command that is
\* reported to have succeeded has run, once.
SuccessMeansRan ==
  \A c \in Commands : outcome[c] = "succeeded" => ran[c] = 1
=============================================================================
