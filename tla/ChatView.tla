------------------------------ MODULE ChatView ------------------------------
(***************************************************************************)
(* The route chat of the administrator's console (frontend/src/main.jsx):  *)
(* what it shows of a conversation, and the requests whose answers change  *)
(* that, in whatever order they arrive. What is shown is named by the      *)
(* conversation it is of. The chat stays open (activeView is "chat").      *)
(*                                                                         *)
(* Left out: a driver's workspace, scenarios, the map and the selected     *)
(* route with its requests, pages of more than 100, requests that fail     *)
(* though the conversation exists. A request is served when its answer     *)
(* arrives.                                                                *)
(***************************************************************************)
EXTENDS Integers, Sequences, FiniteSets

CONSTANTS
    Chats,      \* ids of conversations
    FirstChats, \* those there are at first
    FirstEmpty, \* and of these, those in which no replan has answered
    NobodysChat,\* null
    MaxWaiting, \* bound on the requests in flight when the user acts
    MaxActs     \* bound on what the user does

ASSUME ChatAssumption == FirstChats \subseteq Chats /\ NobodysChat \notin Chats

VARIABLES
    exist, gone,    \* at the API: conversations; those that were deleted
    empty,          \* conversations without an agent run
    conversationId, storedId,
    shownMessages, contextWindow, agenticResult,  \* the conversation each is of
    chatList,       \* conversations, the list at the left
    disabled,       \* autoRestoreConversationDisabledRef
    waiting,        \* requests in flight
    strayed,        \* history: the panes whose last answer was for a conversation that was
                    \* not selected when it came
    reloaded,       \* history: the id stored at a reload, until the user acts
    acts

atApi == <<exist, gone, empty>>
panes == <<shownMessages, contextWindow, agenticResult>>
selection == <<conversationId, storedId>>
traces == <<strayed, reloaded, acts>>
chatVars == <<atApi, selection, panes, chatList, disabled, waiting, traces>>

\* A request and those that follow it when it is answered; what the closure it was
\* made in has for conversationId.
Request(steps, c, id) == [steps |-> steps, chat |-> c, id |-> id]
OpenPage == {Request(<<"list">>, NobodysChat, NobodysChat)}

ChatInit ==
    /\ exist = FirstChats /\ gone = {} /\ empty = FirstEmpty
    /\ conversationId = NobodysChat /\ storedId \in FirstChats \cup {NobodysChat}
    /\ shownMessages = NobodysChat /\ contextWindow = NobodysChat /\ agenticResult = NobodysChat
    /\ chatList = {} /\ disabled = FALSE
    /\ waiting = OpenPage
    /\ strayed = {} /\ reloaded = storedId /\ acts = 0

\* The effect that restores a conversation runs before any other event.
RestoreDue == ~disabled /\ conversationId = NobodysChat /\ chatList # {}

UserMayClick ==
    /\ ~RestoreDue /\ Cardinality(waiting) <= MaxWaiting
    /\ acts < MaxActs /\ acts' = acts + 1

UserActs == UserMayClick /\ reloaded' = NobodysChat

\* selectConversation
SelectConversation(c) ==
    /\ conversationId' = c /\ storedId' = c /\ disabled' = FALSE
    /\ waiting' = waiting \cup {Request(<<op>>, c, NobodysChat) : op \in {"messages", "context", "runs"}}
    /\ UNCHANGED <<atApi, panes, chatList, strayed>>

ClickConversation(c) == c \in chatList /\ UserActs /\ SelectConversation(c)

\* Mutant: the first conversation of the list.
MutToRestore == chatList

ToRestore == IF storedId \in chatList THEN {storedId} ELSE chatList

AutoRestore ==
    /\ RestoreDue
    /\ \E c \in ToRestore : SelectConversation(c)
    /\ UNCHANGED <<reloaded, acts>>

ClearSelection == conversationId' = NobodysChat /\ storedId' = NobodysChat

\* Mutant: the execution of the last conversation stays.
MutClearPanes ==
    shownMessages' = NobodysChat /\ contextWindow' = NobodysChat /\ UNCHANGED agenticResult

ClearPanes ==
    shownMessages' = NobodysChat /\ contextWindow' = NobodysChat /\ agenticResult' = NobodysChat

StartNewConversation ==
    /\ UserActs
    /\ disabled' = TRUE
    /\ ClearSelection /\ ClearPanes /\ strayed' = {}
    /\ UNCHANGED <<atApi, chatList, waiting>>

ClickDelete(c) ==
    /\ c \in chatList /\ UserActs
    /\ waiting' = waiting \cup {Request(<<"delete">>, c, conversationId)}
    /\ UNCHANGED <<atApi, selection, panes, chatList, disabled, strayed>>

SendMessage ==
    /\ UserActs
    /\ waiting' = waiting \cup {Request(<<"replan", "messages", "list">>, conversationId, NobodysChat)}
    /\ UNCHANGED <<atApi, selection, panes, chatList, disabled, strayed>>

\* The page is loaded again; what was on its way to the API is answered to nobody.
Reload ==
    /\ UserMayClick
    /\ \A r \in waiting : r.steps[1] \notin {"replan", "delete"}
    /\ conversationId' = NobodysChat /\ ClearPanes
    /\ chatList' = {} /\ disabled' = FALSE
    /\ waiting' = OpenPage
    /\ strayed' = {} /\ reloaded' = storedId
    /\ UNCHANGED <<atApi, storedId>>

-----------------------------------------------------------------------------
(* Answers.                                                                *)

Answer(r, op) == ~RestoreDue /\ r \in waiting /\ r.steps[1] = op

\* The request is done, or its function goes on with the next.
Proceed(r) ==
    waiting' = (waiting \ {r}) \cup
                 (IF Len(r.steps) = 1 THEN {} ELSE {[r EXCEPT !.steps = Tail(@)]})

ChatOrNone(c) == IF c \in empty THEN NobodysChat ELSE c

\* Of a conversation that is gone nothing is loaded: the API answers 404.
Known(r) == r.chat \in exist

PaneAnswered(r) ==
    /\ \/ /\ Answer(r, "messages")
          /\ shownMessages' = IF Known(r) THEN r.chat ELSE shownMessages
          /\ UNCHANGED <<contextWindow, agenticResult>>
       \/ /\ Answer(r, "context")
          /\ contextWindow' = IF Known(r) THEN ChatOrNone(r.chat) ELSE contextWindow
          /\ UNCHANGED <<shownMessages, agenticResult>>
       \/ /\ Answer(r, "runs")
          /\ agenticResult' = IF Known(r) THEN ChatOrNone(r.chat) ELSE agenticResult
          /\ UNCHANGED <<shownMessages, contextWindow>>
    /\ strayed' = IF ~Known(r) THEN strayed
                    ELSE IF r.chat = conversationId THEN strayed \ {r.steps[1]}
                    ELSE strayed \cup {r.steps[1]}
    /\ Proceed(r)
    /\ UNCHANGED <<atApi, selection, chatList, disabled, reloaded, acts>>

ConversationsAnswered(r) ==
    /\ Answer(r, "list")
    /\ chatList' = exist
    /\ Proceed(r)
    /\ UNCHANGED <<atApi, selection, panes, disabled, traces>>

\* The answer of a replan, in a conversation it may have made, or none: the error
\* is shown, and nothing else follows.
ReplanAnswered(r) ==
    /\ Answer(r, "replan")
    /\ \E c \in (IF r.chat = NobodysChat THEN Chats \ (exist \cup gone) ELSE {r.chat} \cap exist) :
         /\ exist' = exist \cup {c} /\ empty' = empty \ {c} /\ UNCHANGED gone
         /\ conversationId' = c /\ storedId' = c /\ disabled' = FALSE
         /\ agenticResult' = c /\ contextWindow' = c /\ strayed' = strayed \ {"context", "runs"}
         /\ waiting' = (waiting \ {r}) \cup {[r EXCEPT !.steps = Tail(@), !.chat = c]}
    /\ UNCHANGED <<shownMessages, chatList, reloaded, acts>>

ReplanFailed(r) ==
    /\ Answer(r, "replan")
    /\ waiting' = waiting \ {r}
    /\ UNCHANGED <<atApi, selection, panes, chatList, disabled, traces>>

\* Only what was selected when the button was clicked is known.
DeleteAnswered(r) ==
    /\ Answer(r, "delete")
    /\ exist' = exist \ {r.chat} /\ gone' = gone \cup {r.chat} /\ UNCHANGED empty
    /\ IF r.chat \in exist
         THEN /\ chatList' = chatList \ {r.chat}
              /\ IF r.id = r.chat THEN ClearSelection /\ ClearPanes /\ strayed' = {}
                   ELSE UNCHANGED <<selection, panes, strayed>>
         ELSE UNCHANGED <<chatList, selection, panes, strayed>>
    /\ Proceed(r)
    /\ UNCHANGED <<disabled, reloaded, acts>>

\* Nothing to do.
ChatRest == waiting = {} /\ acts = MaxActs /\ ~RestoreDue /\ UNCHANGED chatVars

ChatNext ==
    \/ \E c \in Chats : ClickConversation(c) \/ ClickDelete(c)
    \/ ChatRest
    \/ AutoRestore \/ StartNewConversation \/ SendMessage \/ Reload
    \/ \E r \in waiting : \/ PaneAnswered(r) \/ ConversationsAnswered(r)
                          \/ ReplanAnswered(r) \/ ReplanFailed(r) \/ DeleteAnswered(r)

ChatSpec == ChatInit /\ [][ChatNext]_chatVars

-----------------------------------------------------------------------------
Settled == waiting = {} /\ ~RestoreDue

\* When everything is answered, a pane shows the conversation that is selected, whatever
\* the user did meanwhile and in whatever order the answers came: with the exception of
\* a pane whose last answer was for a conversation that was not selected any more, which
\* the console shows all the same.
PanesAgree ==
    Settled /\ conversationId \in exist \cup {NobodysChat} =>
        /\ "messages" \notin strayed => shownMessages = conversationId
        /\ "context" \notin strayed => contextWindow = ChatOrNone(conversationId)
        /\ "runs" \notin strayed => agenticResult = ChatOrNone(conversationId)

\* The conversation that was open is open again after a reload, whichever of the
\* lists comes first, if it still exists.
ReloadRestores ==
    Settled /\ reloaded \in exist => conversationId = reloaded

=============================================================================
