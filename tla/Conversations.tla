--------------------------- MODULE Conversations ---------------------------
(* A message from the browser to the request boundary and back: the chat form of
   static/aegis.js, POST /api/message and GET /api/request-status of web.py, and
   the rows of conversation.py.

   The browser gives a message a correlation and keeps it until it knows what
   became of it: "Retry" sends the same one again, "Recheck status" only asks. The
   conversation it is sent in is the one that is shown at that time, and showing
   another one does not make the form forget. The server has a thread per request.
   It records the owner's message, one row per conversation, correlation and role,
   hands the message to the boundary (Interaction.tla), and records the reply.
   Statements fail, and a commit that went through can look as if it had not;
   connections break; the server dies and is started again.                     *)
EXTENDS Naturals, FiniteSets

CONSTANTS
  Conversations, \* the owner's conversations
  Elsewhere,     \* a conversation that is not the owner's, or not there
  MaxPosts,      \* bound: requests to POST /api/message
  MaxMessages,   \* bound: messages the browser gives a correlation
  Mishaps        \* bound: failures, broken connections, timeouts, restarts

ASSUME ConversationAssumption ==
  /\ {MaxPosts, MaxMessages, Mishaps} \subseteq Nat
  /\ Elsewhere \notin Conversations

Posts == 1..MaxPosts
Correlations == 1..MaxMessages
None == 0
\* what has one row of each role
Messages == Conversations \X Correlations

VARIABLES
  rows,       \* conversation_messages: <<conversation, correlation, role>>
  handed,     \* how often each message was handed to the boundary
  canonical,  \* what the store says became of it
  post,       \* the requests
  browser,    \* the chat form
  mishaps

conversationVars == <<rows, handed, canonical, post, browser, mishaps>>

NoPost == [at |-> "idle", correlation |-> None, kind |-> "plain", conversation |-> Elsewhere,
           again |-> FALSE, heard |-> FALSE, code |-> "none"]
\* the codes after which the form keeps the correlation
RetryableCodes == {"identity_unavailable", "state_unavailable", "request_unavailable",
                   "request_timeout"}
Unfinished == "inProgress"
Codes == {"none", "completed", "retryable", Unfinished, "request_denied",
          "request_unavailable", "conversation_unavailable", "identity_unavailable"}
\* after these the owner is not shown anything of the conversation any more
AuthorizationLost == {"identity_unavailable", "state_access_denied"}

ConversationsInit ==
  /\ rows = {} /\ mishaps = 0
  /\ handed = [m \in Messages |-> 0]
  /\ canonical = [q \in Correlations |-> "unknown"]
  /\ post = [p \in Posts |-> NoPost]
  /\ browser = [pending |-> None, button |-> "Send", waits |-> None]

ConversationsTypeOK ==
  /\ rows \subseteq Conversations \X Correlations \X {"owner", "aegis"}
  /\ handed \in [Messages -> Nat]
  /\ canonical \in [Correlations -> {"unknown", Unfinished, "completed", "retryable"}]
  /\ post \in [Posts -> [at : {"idle", "arrived", "append", "hand", "boundary", "reply",
                               "respond", "over"},
                         correlation : Correlations \cup {None},
                         kind : {"plain", "files", "project"},
                         conversation : Conversations \cup {Elsewhere},
                         again : BOOLEAN, heard : BOOLEAN, code : Codes]]
  /\ browser \in [pending : Correlations \cup {None}, waits : Posts \cup {None},
                  button : {"Send", "Retry", "Recheck status"}]
  /\ mishaps \in 0..Mishaps

Mishap == mishaps < Mishaps /\ mishaps' = mishaps + 1
\* what is over keeps its name only
Ended(p) == [NoPost EXCEPT !.at = "over", !.correlation = post[p].correlation]
Message(p) == <<post[p].conversation, post[p].correlation>>
RowOf(m, role) == <<m[1], m[2], role>>
Goto(p, at) == post' = [post EXCEPT ![p].at = at]
Respond(p, code) == post' = [post EXCEPT ![p].at = "respond", ![p].code = code]

-----------------------------------------------------------------------------
(* The server                                                                *)

\* every route asks who the owner is first
TurnAway(p) ==
  /\ post[p].at = "arrived" /\ Mishap
  /\ Respond(p, "identity_unavailable")
  /\ UNCHANGED <<rows, handed, canonical, browser>>

\* a project is inspected, attached files are looked up; a message without either
\* goes straight on. Files that are not there are refused.
PrepareMessage(p) ==
  /\ post[p].at = "arrived"
  /\ \/ Goto(p, "append") /\ UNCHANGED mishaps
     \/ post[p].kind = "files" /\ Respond(p, "request_denied") /\ UNCHANGED mishaps
     \/ post[p].kind # "plain" /\ Respond(p, "request_unavailable") /\ Mishap
  /\ UNCHANGED <<rows, handed, canonical, browser>>

\* Fault: the count of inserted rows is not looked at.
Anything(p, role) == post[p].conversation \in Conversations
\* INSERT ... SELECT ... ON CONFLICT DO NOTHING: a row of a conversation of one's
\* own, unless the correlation has one there in this role
Inserts(p, role) ==
  post[p].conversation \in Conversations /\ RowOf(Message(p), role) \notin rows

AddRow(p, role) == rows' = rows \cup {RowOf(Message(p), role)}
AppendOwner(p) ==
  /\ post[p].at = "append"
  /\ \/ /\ Inserts(p, "owner")
        /\ AddRow(p, "owner")
        /\ Goto(p, IF post[p].kind = "project" THEN "reply" ELSE "hand")
        /\ UNCHANGED mishaps
     \/ /\ ~Inserts(p, "owner")
        /\ Respond(p, "request_denied")
        /\ UNCHANGED <<rows, mishaps>>
     \/ /\ Inserts(p, "owner") /\ Mishap   \* the statement fails, or its commit is not heard of
        /\ AddRow(p, "owner") \/ UNCHANGED rows
        /\ Respond(p, "request_unavailable")
  /\ UNCHANGED <<handed, canonical, browser>>

HandOver(p) ==
  /\ post[p].at = "hand"
  /\ handed' = [handed EXCEPT ![Message(p)] = @ + 1]
  /\ post' = [post EXCEPT ![p].at = "boundary", ![p].heard = TRUE]
  /\ UNCHANGED <<rows, canonical, browser, mishaps>>

\* The boundary commits what it does on its own, and may raise at any point. What
\* is unknown or unfinished is in progress for whoever asks. What it makes of a
\* correlation that it has seen before is the subject of Interaction and Kernel.
BoundaryWorks(p) ==
  LET q == post[p].correlation IN
  /\ post[p].at = "boundary"
  /\ \E state \in {"completed", "retryable", Unfinished} :
       /\ canonical' = [canonical EXCEPT ![q] = state]
       /\ \/ /\ post' = [post EXCEPT ![p].at = "reply", ![p].code = state]
             /\ UNCHANGED mishaps
          \/ Mishap /\ Respond(p, "request_unavailable")
  /\ UNCHANGED <<rows, handed, browser>>
BoundaryRefuses(p) ==
  /\ post[p].at = "boundary"
  /\ \/ Respond(p, "request_denied") /\ UNCHANGED mishaps
     \/ Respond(p, "request_unavailable") /\ Mishap
  /\ UNCHANGED <<rows, handed, canonical, browser>>

\* an inspection has no Result of its own and counts as complete
Reply(p) == IF post[p].kind = "project" THEN "completed" ELSE post[p].code
AppendReply(p) ==
  /\ post[p].at = "reply"
  /\ \/ /\ Inserts(p, "aegis")
        /\ AddRow(p, "aegis") /\ Respond(p, Reply(p))
        /\ UNCHANGED mishaps
     \/ /\ ~Inserts(p, "aegis")
        /\ Respond(p, "conversation_unavailable")
        /\ UNCHANGED <<rows, mishaps>>
     \/ /\ Inserts(p, "aegis") /\ Mishap
        /\ AddRow(p, "aegis") \/ UNCHANGED rows
        /\ Respond(p, "conversation_unavailable")
  /\ UNCHANGED <<handed, canonical, browser>>

\* every request that is being served is gone, what is committed stays
ServerRestarts ==
  /\ Mishap
  /\ post' = [p \in Posts |-> IF post[p].at = "idle" THEN post[p] ELSE Ended(p)]
  /\ UNCHANGED <<rows, handed, canonical, browser>>

-----------------------------------------------------------------------------
(* The browser                                                               *)

\* numbers are given out in turn: no request and no name is told from another
Fresh == {q \in Correlations : \A o \in Correlations : o < q <=> \E p \in Posts : post[p].correlation = o}
NextPost(p) == post[p].at = "idle" /\ \A o \in Posts : o < p => post[o].at # "idle"
\* Send names the message, Retry sends the name again; either can be for the
\* project that is selected or with the files that are ticked, and goes to the
\* conversation that is shown by then (conversationSessionId), whichever the name
\* was given in. The form remembers the correlation before the request leaves.
Submit(p) ==
  /\ browser.waits = None /\ browser.button # "Recheck status"
  /\ NextPost(p)
  /\ \E kind \in {"plain", "files", "project"}, shown \in Conversations \cup {Elsewhere},
        q \in IF browser.pending = None THEN Fresh ELSE {browser.pending} :
       /\ post' = [post EXCEPT ![p] =
            [NoPost EXCEPT !.at = "arrived", !.correlation = q, !.kind = kind,
                           !.conversation = shown, !.again = browser.pending # None]]
       /\ browser' = [browser EXCEPT !.pending = q, !.waits = p]
  /\ UNCHANGED <<rows, handed, canonical, mishaps>>

Forget == [pending |-> None, button |-> "Send", waits |-> None]
Keep(button) == [browser EXCEPT !.button = button, !.waits = None]

\* an outcome that is unknown is asked about later; what is still being worked on
\* by another request is forgotten like what is finished
ShowAnswer(p) ==
  LET code == post[p].code IN
  /\ post[p].at = "respond"
  /\ post' = [post EXCEPT ![p] = Ended(p)]
  /\ \/ browser.waits # p /\ UNCHANGED browser
     \/ /\ browser.waits = p
        /\ IF code \in (RetryableCodes \cup {"retryable"}) \ AuthorizationLost
           THEN browser' = Keep("Retry")
           ELSE \/ browser' = Forget
                \/ code = Unfinished /\ browser' = Keep("Recheck status")
  /\ UNCHANGED <<rows, handed, canonical, mishaps>>

\* the form aborts a slow request; or the connection breaks, or the page is reloaded
GiveUp ==
  /\ browser.waits # None
  /\ IF post[browser.waits].at = "over" THEN UNCHANGED mishaps ELSE Mishap
  /\ \E button \in {"Recheck status", "Retry"} : browser' = Keep(button)
  /\ UNCHANGED <<rows, handed, canonical, post>>

\* get_request_status: the Result, or else the objective; a correlation without
\* either is unknown
RequestStatus(q) == canonical[q]
\* what GET /api/request-status answers, which is asked for the owner's own requests
StatusAnswers(q) == {RequestStatus(q), "state_unavailable"} \cup AuthorizationLost
\* what is unknown or unfinished, and what nobody could say, is asked about again
Recheck ==
  /\ browser.waits = None /\ browser.pending # None
  /\ \E answer \in StatusAnswers(browser.pending) :
       browser' = CASE answer \in {"completed"} \cup AuthorizationLost -> Forget
                    [] answer = "retryable" -> Keep("Retry")
                    [] answer = "unknown" -> Keep("Recheck status")
                    [] OTHER -> browser
  /\ UNCHANGED <<rows, handed, canonical, post, mishaps>>

ConversationsNext ==
  \/ \E p \in Posts : \/ Submit(p) \/ TurnAway(p) \/ PrepareMessage(p) \/ AppendOwner(p) \/ HandOver(p)
                      \/ BoundaryWorks(p) \/ BoundaryRefuses(p) \/ AppendReply(p)
                      \/ ShowAnswer(p)
  \/ ServerRestarts \/ GiveUp \/ Recheck

ConversationsSpec == ConversationsInit /\ [][ConversationsNext]_conversationVars

-----------------------------------------------------------------------------
\* Whatever is sent again, times out or dies on the way, a message is handed to the
\* boundary at most once from each conversation, and only with the owner's row on
\* record there; and what the browser is shown as an answer is in that conversation
\* as the reply. (A retry from another conversation is handed over a second time,
\* and that its consequence happens once is then left to the Kernel: AtMostOnce.)
\* (web.py:1369-1445, conversation.py:84-112)
MessagesAreHandedOnOnce ==
  /\ \A m \in Messages : /\ handed[m] <= 1
                         /\ handed[m] = 1 => RowOf(m, "owner") \in rows
  /\ \A p \in {o \in Posts : post[o].at = "respond"} :
       post[p].code \in {"completed", "retryable", Unfinished} =>
         {RowOf(Message(p), role) : role \in {"owner", "aegis"}} \subseteq rows

\* "the Retry action resubmits that same ID; Core can therefore reuse its durable
\* Result" (docs/ALPHA.md:133-135): a message sent again in a conversation of one's
\* own is not turned away before Core has seen it.
RetryReachesCore ==
  \A p \in Posts : post[p].again /\ post[p].conversation \in Conversations
                     /\ post[p].kind = "plain" /\ post[p].code = "request_denied" => post[p].heard
=============================================================================
