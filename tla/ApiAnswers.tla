----------------------------- MODULE ApiAnswers -----------------------------
(***************************************************************************)
(* The commands that the server passes on to the carrier's API, on one     *)
(* client connection: doDisabledNumber and doGetPoolList build the         *)
(* request, doAPIResponse.cpp turns the XML answer into a reply.  All of   *)
(* it goes through one buffer object, whose fields outlive a command.      *)
(*                                                                         *)
(* Sockets and partial transfers are ConnIO's and Exchange's subject; here *)
(* an API call fails or yields a document.                                 *)
(***************************************************************************)
EXTENDS Naturals, Sequences, SequencesExt, TLC

CONSTANTS Cards,        \* card numbers (jrhm)
          Members,      \* how many cards of sim_tbl belong to each pool (llchm)
          Answers,      \* documents the API may answer with
          MaxCmds       \* bound on the commands of the client

Pools == DOMAIN Members

(***************************************************************************)
(* A parsed document is its root element.  An element has a name, the text *)
(* that is its first child or NULL, and its child elements.  Broken is     *)
(* what tinyxml2 does not parse, an answer that was cut off for example.   *)
(***************************************************************************)
NULL == "NULL"
Elem(name, text, kids) == [name |-> name, text |-> text, kids |-> kids]
Broken == Elem("broken", NULL, <<>>)

ASSUME ApiAssumption ==
    /\ \A p \in Pools : Members[p] \in Nat
    /\ Pools \cap Cards = {} /\ "" \notin Pools
    /\ Broken \in Answers
    /\ MaxCmds \in Nat \ {0}

VARIABLES
    bobj,       \* nCmd, nSubCmd, pfndoApiResponse and strJrhm of the buffer
    pc,         \* how far the command is
    cmds,       \* history: the commands of the client
    docs,       \* history: the documents that answered them (Broken if none)
    replies,    \* the replies posted
    helper      \* records in the message queue of the helper thread

vars == <<bobj, pc, cmds, docs, replies, helper>>

Init ==
    /\ bobj = [nCmd |-> "none", nSubCmd |-> "none", pfn |-> "none", strJrhm |-> ""]
    /\ pc = "idle"
    /\ cmds = <<>>
    /\ docs = <<>>
    /\ replies = <<>>
    /\ helper = <<>>

-----------------------------------------------------------------------------
(***************************************************************************)
(* A reply is one array: the length that pack_array announces, the number  *)
(* of items that are packed into it, and what they tell.                   *)
(***************************************************************************)
Reply(array, items, code, jrhm, rows) ==
    [array |-> array, items |-> items, nCmd |-> bobj.nCmd, nSubCmd |-> bobj.nSubCmd,
     code |-> code, jrhm |-> jrhm, rows |-> rows]

\* The reply is posted; the connection takes no command until it is sent.
DealTail(r) ==
    /\ replies' = Append(replies, r)
    /\ pc' = "send"

API_Failed == DealTail(Reply(5, 5, 1, bobj.strJrhm, <<>>))

\* atoi: a text that is no number counts as 0.
atoi(text) ==
    LET numerals == "0" :> 0 @@ "1" :> 1 @@ "9" :> 9
    IN IF text \in DOMAIN numerals THEN numerals[text] ELSE 0

(***************************************************************************)
(* The first n children of an element, taken by FirstChildElement and then *)
(* NextSiblingElement, each with its text: a missing one, or one without   *)
(* text, is a NULL pointer that is used.                                   *)
(***************************************************************************)
CanWalk(e, n) ==
    /\ Len(e.kids) >= n
    /\ \A i \in 1 .. n : e.kids[i].text # NULL

Texts(e, n) == [i \in 1 .. n |-> e.kids[i].text]

\* No thread has this identifier: theHeperFunction is never started.
g_HelpThreadID == 0

PostThreadMessage(queue, record) ==
    IF g_HelpThreadID = 0 THEN queue ELSE Append(queue, record)

-----------------------------------------------------------------------------
(***************************************************************************)
(* The response functions.  Each gets a document that was parsed; it       *)
(* replies, returns without a reply, returns false, or uses NULL.          *)
(***************************************************************************)
Crash ==
    /\ pc' = "crashed"
    /\ UNCHANGED <<replies, helper>>

doDisNumberResponse(doc) ==
    IF CanWalk(doc, 4)
    THEN LET t == Texts(doc, 4)
         IN /\ DealTail(Reply(6, 6, 0, bobj.strJrhm,
                  <<<<atoi(t[1]), atoi(t[2]), t[3], t[4]>>>>))
            /\ helper' = PostThreadMessage(helper, <<bobj.strJrhm>> \o t)
    ELSE Crash

\* One row of seven fields per pool, the last pool first.  An array of five is
\* announced and four items follow: command, subcommand, result and rows.
doPoolList01Response(doc) ==
    IF \A i \in 1 .. Len(doc.kids) : CanWalk(doc.kids[i], 7)
    THEN /\ DealTail(Reply(5, 4, 0, "",
               Reverse([i \in 1 .. Len(doc.kids) |-> Texts(doc.kids[i], 7)])))
         /\ UNCHANGED helper
    ELSE Crash

\* Returns true and replies nothing: no request is posted any more.
doPoolList02Response(doc) ==
    /\ pc' = "silent"
    /\ UNCHANGED <<replies, helper>>

\* SELECT COUNT(*) FROM sim_tbl WHERE llchm=...
CountMembers(llchm) == IF llchm \in Pools THEN Members[llchm] ELSE 0

(***************************************************************************)
(* The usage figures are taken below IRESULT; GROUP_TRANSACTIONID is       *)
(* fetched and not used.  The members are counted of strJrhm, which is a   *)
(* card.  The query can fail, before a reply is packed.                    *)
(***************************************************************************)
doPoolList03Response(doc) ==
    IF /\ doc.kids # <<>>
       /\ Len(doc.kids[1].kids) >= 3
    THEN \/ /\ API_Failed
            /\ UNCHANGED helper
         \/ IF CanWalk(doc, 1) /\ CanWalk(doc.kids[1], 3)
            THEN /\ DealTail(Reply(4, 4, 0, "",
                      <<<<CountMembers(bobj.strJrhm), atoi(doc.kids[1].text)>>
                          \o Texts(doc.kids[1], 3)>>))
                 /\ UNCHANGED helper
            ELSE Crash
    ELSE Crash

\* pfndoApiResponse, after doc.Parse and RootElement.
pfndoApiResponse(doc) ==
    \/ bobj.pfn = "doDisNumberResponse" /\ doDisNumberResponse(doc)
    \/ bobj.pfn = "doPoolList01Response" /\ doPoolList01Response(doc)
    \/ bobj.pfn = "doPoolList02Response" /\ doPoolList02Response(doc)
    \/ bobj.pfn = "doPoolList03Response" /\ doPoolList03Response(doc)

-----------------------------------------------------------------------------
\* A command of the client: the fields every one of them sets, and its own.
Command(c, pfn, jrhm, next) ==
    /\ pc = "idle"
    /\ Len(cmds) < MaxCmds
    /\ cmds' = Append(cmds, c)
    /\ docs' = Append(docs, Broken)
    /\ bobj' = [nCmd |-> c.cmd, nSubCmd |-> c.sub, pfn |-> pfn, strJrhm |-> jrhm]
    /\ pc' = next
    /\ UNCHANGED <<replies, helper>>

Cmd(cmd, sub, arg) == [cmd |-> cmd, sub |-> sub, arg |-> arg]

\* Faulty variant: the card stays a local variable, as the pool number does.
doDisabledKeepsCard(jrhm, sub) ==
    Command(Cmd("DISABLE_NUMBER_DATA", sub, jrhm), "doDisNumberResponse",
            bobj.strJrhm, "account")

doDisabledNumber(jrhm, sub) ==
    Command(Cmd("DISABLE_NUMBER_DATA", sub, jrhm), "doDisNumberResponse", jrhm,
            "account")

\* The number of the pool goes into the request, not into the buffer object.
doGetPoolList(llchm, sub, pfn) ==
    Command(Cmd("POOL_LIST_DATA", sub, llchm), pfn, bobj.strJrhm, "account")

\* A subcommand neither function knows: nothing is posted.
UnknownSubCmd(cmd) ==
    Command(Cmd(cmd, "unknown", ""),
            IF cmd = "DISABLE_NUMBER_DATA" THEN "doDisNumberResponse" ELSE bobj.pfn,
            bobj.strJrhm, "silent")

\* Select_From_Tbl finds no database or no such account.
AccountFails ==
    /\ pc = "account"
    /\ API_Failed
    /\ UNCHANGED <<bobj, cmds, docs, helper>>

\* A field is NULL, a key too short or COM fails: ProcessCommand's handlers.
Escape ==
    /\ pc = "account"
    /\ bobj' = [bobj EXCEPT !.nCmd = "0xbb", !.nSubCmd = "0xbb"]
    /\ DealTail([Reply(3, 3, 0, "", <<>>) EXCEPT !.nCmd = "0xbb", !.nSubCmd = "0xbb"])
    /\ UNCHANGED <<cmds, docs, helper>>

\* The request is signed and on its way.
doApi ==
    /\ pc = "account"
    /\ pc' = "api"
    /\ UNCHANGED <<bobj, cmds, docs, replies, helper>>

\* A step of the call fails, in doApi or in a completion handler.
ApiFails ==
    /\ pc = "api"
    /\ API_Failed
    /\ UNCHANGED <<bobj, cmds, docs, helper>>

\* Faulty variant: API_Failed follows a response function that replied.
DoReturnTwice ==
    /\ pc = "api"
    /\ \E doc \in Answers \ {Broken} :
         /\ CanWalk(doc, 4)
         /\ docs' = [docs EXCEPT ![Len(docs)] = doc]
         /\ replies' = replies \o <<Reply(6, 6, 0, bobj.strJrhm, <<>>),
                                    Reply(5, 5, 1, bobj.strJrhm, <<>>)>>
         /\ pc' = "send"
    /\ UNCHANGED <<bobj, cmds, helper>>

\* The API has answered and closed its side.
DoReturnData ==
    /\ pc = "api"
    /\ \E doc \in Answers :
         /\ docs' = [docs EXCEPT ![Len(docs)] = doc]
         /\ IF doc = Broken
            THEN API_Failed /\ UNCHANGED helper
            ELSE pfndoApiResponse(doc)
    /\ UNCHANGED <<bobj, cmds>>

\* The reply is sent whole and the next command can be received.
SendCompSuccess ==
    /\ pc = "send"
    /\ pc' = "idle"
    /\ UNCHANGED <<bobj, cmds, docs, replies, helper>>

Next ==
    \/ \E c \in Cards, s \in {"DN_DISABLE", "DN_ABLE"} : doDisabledNumber(c, s)
    \/ doGetPoolList("", "PL_GET_LIST", "doPoolList01Response")
    \/ \E p \in Pools : doGetPoolList(p, "PL_LLC_INFO", "doPoolList02Response")
    \/ \E p \in Pools : doGetPoolList(p, "PL_LLC_POOLQRY", "doPoolList03Response")
    \/ \E c \in {"DISABLE_NUMBER_DATA", "POOL_LIST_DATA"} : UnknownSubCmd(c)
    \/ AccountFails
    \/ Escape
    \/ doApi
    \/ ApiFails
    \/ DoReturnData
    \/ SendCompSuccess

Spec == Init /\ [][Next]_vars

-----------------------------------------------------------------------------
(***************************************************************************)
(* One reply per command and in their order: the n-th reply carries the    *)
(* n-th command's numbers, or those of the error reply, although the       *)
(* buffer's fields are overwritten from command to command.                *)
(***************************************************************************)
RepliesInOrder ==
    /\ Len(replies) = IF pc \in {"idle", "send"} THEN Len(cmds) ELSE Len(cmds) - 1
    /\ \A n \in 1 .. Len(replies) :
         \/ replies[n].nCmd = "0xbb"
         \/ /\ replies[n].nCmd = cmds[n].cmd
            /\ replies[n].nSubCmd = cmds[n].sub

\* The card of the last of the first n commands that stops or restores one.
LastCard(n) ==
    LET before == {k \in 1 .. n : /\ cmds[k].cmd = "DISABLE_NUMBER_DATA"
                                  /\ cmds[k].sub # "unknown"}
    IN IF before = {} THEN "" ELSE cmds[Max(before)].arg

(***************************************************************************)
(* A command that stops or restores a card is answered, well or not, with  *)
(* the number of that card and of no card of an earlier command; a pool    *)
(* command that succeeds names no card.                                    *)
(***************************************************************************)
CardNamed ==
    \A n \in 1 .. Len(replies) :
        /\ replies[n].nCmd = "DISABLE_NUMBER_DATA" => replies[n].jrhm = cmds[n].arg
        /\ replies[n].nCmd # "DISABLE_NUMBER_DATA" /\ replies[n].code = 0 =>
             replies[n].jrhm = ""

(***************************************************************************)
(* Where the card of an earlier command does come through, against what a  *)
(* client must expect: a pool command that fails names the last card of    *)
(* the connection, and the members of a queried pool are counted as those  *)
(* of a card.  The count, "number of members of the pool" in the code's    *)
(* comment, is right exactly for a pool without members.                   *)
(***************************************************************************)
StaleCard ==
    \A n \in 1 .. Len(replies) :
        /\ replies[n].nCmd # "DISABLE_NUMBER_DATA" /\ replies[n].code = 1 =>
             replies[n].jrhm = LastCard(n)
        /\ replies[n].nSubCmd = "PL_LLC_POOLQRY" /\ replies[n].code = 0 =>
             (replies[n].rows[1][1] = Members[cmds[n].arg] <=> Members[cmds[n].arg] = 0)

\* A reply can be taken apart, all but one: the list of pools lacks an item.
Decodable ==
    \A n \in 1 .. Len(replies) :
        replies[n].array = replies[n].items <=>
            ~(replies[n].nSubCmd = "PL_GET_LIST" /\ replies[n].code = 0)

\* The texts of a pool by the names of its fields.
Field(pool, name) ==
    LET i == CHOOSE j \in 1 .. Len(pool.kids) : pool.kids[j].name = name
    IN pool.kids[i].text

PoolFields == <<"create_date", "pool_infoUnit", "state", "pool_info", "exp_date",
                "acc_nbr", "eff_date">>

Figures == <<"pool_already", "pool_left", "pool_total">>

(***************************************************************************)
(* The answers have their elements in the order of the documents quoted in *)
(* doAPIResponse.cpp, and no name twice: a list's pools, known by their    *)
(* seven elements, and the figures below an element that has a text.       *)
(***************************************************************************)
HasKids(e) == e.kids \in Seq(Range(e.kids))

HasFields(e, names) ==
    \A f \in 1 .. Len(names), j \in 1 .. Len(e.kids) :
        e.kids[j].name = names[f] <=> j = f

AnswersDocumented ==
    \A doc \in Answers :
        /\ HasKids(doc)
        /\ \A i \in 1 .. Len(doc.kids) :
             LET e == doc.kids[i]
             IN /\ HasKids(e)
                /\ Len(e.kids) >= 7 => HasFields(e, PoolFields)
                /\ i = 1 /\ e.text # NULL /\ Len(e.kids) >= 3 => HasFields(e, Figures)

(***************************************************************************)
(* What the client gets is the API's: of a list each pool once, whatever   *)
(* their number, and every field the one of that name, although the code   *)
(* counts children and looks at no name; of a pool query its three figures.*)
(* The row's first column, the members, is StaleCard's subject.            *)
(***************************************************************************)
PoolsReported ==
    \A n \in 1 .. Len(replies) : replies[n].code = 0 =>
        /\ replies[n].nSubCmd = "PL_GET_LIST" =>
             /\ Len(replies[n].rows) = Len(docs[n].kids)
             /\ \A i \in 1 .. Len(docs[n].kids) :
                  \E r \in 1 .. Len(replies[n].rows) :
                     replies[n].rows[r] =
                         [f \in 1 .. 7 |-> Field(docs[n].kids[i], PoolFields[f])]
        /\ replies[n].nSubCmd = "PL_LLC_POOLQRY" =>
             SubSeq(replies[n].rows[1], 3, 5) =
                 [f \in 1 .. 3 |-> Field(docs[n].kids[1], Figures[f])]

(***************************************************************************)
(* What a reply tells is the command's own card and the API's pools and    *)
(* figures, whatever earlier commands left in the buffer object, with      *)
(* exactly three exceptions, each confined to one kind of reply: the list  *)
(* of pools is packed so that it cannot be decoded, a failed pool command  *)
(* names an earlier card, and the members of a pool are counted wrongly.   *)
(***************************************************************************)
RepliesFaithful == CardNamed /\ PoolsReported /\ StaleCard /\ Decodable

-----------------------------------------------------------------------------
(***************************************************************************)
(* "Carry out the database operation": the record of every card that the   *)
(* API has stopped or restored reaches the helper thread.                  *)
(***************************************************************************)
UpdateHandedOver ==
    \A n \in 1 .. Len(replies) :
        replies[n].nCmd = "DISABLE_NUMBER_DATA" /\ replies[n].code = 0 =>
            \E k \in 1 .. Len(helper) : helper[k][1] = replies[n].jrhm
=============================================================================
