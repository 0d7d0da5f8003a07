------------------------------ MODULE PriceSend ------------------------------
(***************************************************************************)
(* internal/craw/cron/price_send.go with the recipes of                    *)
(* internal/ai/doubao and the SMTP mailer: each subscriber is mailed a     *)
(* recipe made from the prices of its city the day before.                 *)
(***************************************************************************)
EXTENDS DailyJobs

CONSTANTS
    SendTimes,    \* when the schedule fires
    Subscribers,  \* the rows that table subscribe may hold
    HomeOf,       \* the city of each
    MaxAttempts   \* the model's maxRetries

VARIABLES
    sends,        \* the send begun at each time of the schedule
    mails         \* the mails handed to the SMTP server

NotSent == [pc |-> "none"]

Nobody == "nobody"

ASSUME SendAssumption ==
    SendTimes \subseteq Nat /\ MaxAttempts \in Nat /\ Nobody \notin Subscribers

SendOver == {"succeeded", "failed"}

SendTypeOK ==
    /\ \A t \in SendTimes :
        \/ sends[t] = NotSent
        \/ /\ sends[t].pc \in {"list", "city", "recipient", "ask", "mail"} \cup SendOver
           /\ sends[t].left \subseteq sends[t].listed /\ sends[t].listed \subseteq Subscribers
           /\ sends[t].priced \subseteq Rows
           /\ sends[t].attempt \in 0 .. MaxAttempts
           /\ sends[t].draft \in Subscribers \cup {Nobody}
           /\ sends[t].pc \in {"ask", "mail"} =>
                /\ sends[t].to \in sends[t].left
                /\ HomeOf[sends[t].to] = sends[t].city
    /\ mails \subseteq [send : SendTimes, to : Subscribers, kind : {"recipe", "default", "empty"},
                        of : Subscribers \cup {Nobody}, priced : SUBSET Rows]

Turn(t, pc, listed, left, draft) ==
    sends' = [sends EXCEPT ![t] =
        [pc |-> pc, deadline |-> t + JobTimeout, listed |-> listed, left |-> left, city |-> Nobody,
         priced |-> {}, to |-> Nobody, attempt |-> 0, draft |-> draft, kind |-> "empty"]]

BeginSend(t) == sends[t] = NotSent /\ Turn(t, "list", {}, {}, Nobody)

Sending(t, pc) == up /\ sends[t].pc = pc

Fails(t) == Turn(t, "failed", sends[t].listed, sends[t].left, Nobody)

\* The subscribers of the moment; neither List looks at the context.
ListSubscribers(t) ==
    /\ Sending(t, "list")
    /\ \/ \E listed \in SUBSET Subscribers : Turn(t, "city", listed, listed, Nobody)
       \/ Fails(t)
    /\ UNCHANGED <<clock, prices, mails>>

\* The subscribers are grouped by city; a map has no order.
NextCity(t) ==
    /\ Sending(t, "city")
    /\ LET s == sends[t] IN
        IF s.left = {} THEN Turn(t, "succeeded", s.listed, {}, Nobody)
        ELSE \/ \E r \in s.left : \E rows \in ListPrices(Day(t) - 1, HomeOf[r]) :
                  sends' = [sends EXCEPT ![t].pc = "recipient", ![t].city = HomeOf[r],
                                         ![t].priced = rows]
             \/ Fails(t)
    /\ UNCHANGED <<clock, prices, mails>>

\* (Fault: those of the city who have been mailed are mailed again.)
NextRecipientAgain_Bug(t) ==
    /\ Sending(t, "recipient")
    /\ LET here == {r \in sends[t].listed : HomeOf[r] = sends[t].city} IN
        \/ here = {} /\ Turn(t, "city", sends[t].listed, sends[t].left, sends[t].draft)
        \/ \E r \in here :
            sends' = [sends EXCEPT ![t].pc = IF sends[t].priced = {} THEN "mail" ELSE "ask",
                                   ![t].to = r, ![t].attempt = 0, ![t].draft = Nobody,
                                   ![t].kind = "empty"]
    /\ UNCHANGED <<clock, prices, mails>>

\* (Fault: the decoded recipes outlive the call.)
NextRecipient_Bug(t) ==
    /\ Sending(t, "recipient")
    /\ LET here == {r \in sends[t].left : HomeOf[r] = sends[t].city} IN
        \/ here = {} /\ Turn(t, "city", sends[t].listed, sends[t].left, sends[t].draft)
        \/ \E r \in here :
            sends' = [sends EXCEPT ![t].pc = IF sends[t].priced = {} THEN "mail" ELSE "ask",
                                   ![t].to = r, ![t].attempt = 0, ![t].kind = "empty"]
    /\ UNCHANGED <<clock, prices, mails>>

\* GenerateRecipe for the next of the city: without prices, the template that says so.
NextRecipient(t) ==
    /\ Sending(t, "recipient")
    /\ LET here == {r \in sends[t].left : HomeOf[r] = sends[t].city} IN
        \/ here = {} /\ Turn(t, "city", sends[t].listed, sends[t].left, sends[t].draft)
        \/ \E r \in here :
            sends' = [sends EXCEPT ![t].pc = IF sends[t].priced = {} THEN "mail" ELSE "ask",
                                   ![t].to = r, ![t].attempt = 0, ![t].draft = Nobody,
                                   ![t].kind = "empty"]
    /\ UNCHANGED <<clock, prices, mails>>

\* The template cannot be rendered: the error is logged and its nil answer used.
EmptyPanics(t) ==
    /\ Sending(t, "mail") /\ sends[t].priced = {}
    /\ up' = FALSE

\* The recipes decoded, rendered, or the default text.
RecipeText(t, draft) ==
    sends' = [sends EXCEPT ![t].pc = "mail", ![t].attempt = 0, ![t].kind = "recipe", ![t].draft = draft]

DefaultText(t) ==
    sends' = [sends EXCEPT ![t].pc = "mail", ![t].attempt = 0, ![t].kind = "default", ![t].draft = Nobody]

\* The last attempt that fails makes way for the default text.
AskFails(t, draft) ==
    IF sends[t].attempt + 1 >= MaxAttempts \/ Done(sends[t].deadline)
    THEN DefaultText(t)
    ELSE sends' = [sends EXCEPT ![t].attempt = @ + 1, ![t].draft = draft]

\* buildRecipePrompt: who likes and dislikes what, and the prices, known here by whom
\* it is for.
PromptOf(t) == sends[t].to

\* One attempt of retry.Do.  All decode into the same list: what an answer with a
\* value of the wrong type has left stays for an answer that names no recipes.
\* A list that cannot be rendered makes way for the default text, too.
Ask(t) ==
    /\ Sending(t, "ask")
    /\ LET own == PromptOf(t) IN
        \/ AskFails(t, sends[t].draft)
        \/ /\ ~Done(sends[t].deadline)
           /\ \/ RecipeText(t, own) \/ DefaultText(t)
              \/ AskFails(t, own)
              \/ AskFails(t, Nobody)
              \/ sends[t].draft # Nobody /\ RecipeText(t, sends[t].draft)
    /\ UNCHANGED <<clock, prices, mails>>

Handed(t) ==
    mails' = mails \cup {[send |-> t, to |-> sends[t].to, kind |-> sends[t].kind,
                          of |-> sends[t].draft, priced |-> sends[t].priced]}

\* (Fault: a mail that fails is passed over.)
Mail_Bug(t) ==
    /\ Sending(t, "mail")
    /\ sends' = [sends EXCEPT ![t].pc = "recipient", ![t].left = @ \ {sends[t].to}]
    /\ Handed(t) \/ UNCHANGED mails
    /\ UNCHANGED <<clock, prices>>

\* SendBulkEmails to the one; an error, even of a mail that went out, ends the run.
Mail(t) ==
    /\ Sending(t, "mail")
    /\ \/ /\ Handed(t)
          /\ sends' = [sends EXCEPT ![t].pc = "recipient", ![t].left = @ \ {sends[t].to}]
       \/ /\ Handed(t) \/ UNCHANGED mails
          /\ Fails(t)
    /\ UNCHANGED <<clock, prices>>

SendStep(t) ==
    \/ ListSubscribers(t) \/ NextCity(t) \/ NextRecipient(t) \/ Ask(t) \/ Mail(t)
==============================================================================
