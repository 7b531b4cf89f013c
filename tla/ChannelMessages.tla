-------------------------- MODULE ChannelMessages --------------------------
(***************************************************************************)
(* How each channel adapter turns a platform event into a Message, and an  *)
(* OutboundMessage into platform calls, as functions of the event: one     *)
(* action per adapter applies its conversion to every small event.         *)
(*                                                                         *)
(* An inbound event: what was typed (text or caption), a shared location,  *)
(* an attachment, whether it is within the size limit and its download     *)
(* works, whether it mentions the bot in a group that requires that, and   *)
(* whether the bot itself sent it.  A Message's body is the typed text, a  *)
(* location, or a placeholder such as "[Image]"; synthetic marks a         *)
(* placeholder so that the queue may drop it when it merges messages.      *)
(***************************************************************************)
EXTENDS Naturals, Sequences, FiniteSets

CONSTANTS MaxMedia   \* bound: attachments of an outbound message

Attachments == {"none", "image", "document", "video", "sticker"}
InboundEvents == [typed : BOOLEAN, place : BOOLEAN, file : Attachments, small : BOOLEAN,
                  loads : BOOLEAN, unaddressed : BOOLEAN, own : BOOLEAN]
Adapters == {"telegram", "discord", "slack", "whatsapp", "signal", "line", "googlechat", "imessage"}

(* An outbound message: its text, whether that is too long for a caption,  *)
(* and for each attachment what resolveMediaSource finds and its type.     *)
Sources == {"remote", "local", "buffer", "rejected"}
OutboundMedia == UNION {[1..n -> Sources \X {"image", "document"}] : n \in 0..MaxMedia}
OutboundMessages == [text : BOOLEAN, long : BOOLEAN, media : OutboundMedia]

VARIABLES
  converted,   \* the last conversion: adapter, event and Message, or "nothing"
  delivered    \* the last send: adapter, message, texts and files that went out

messageVars == <<converted, delivered>>

Dropped_ == [body |-> "dropped", data |-> "none", synthetic |-> FALSE]
MessagesInit == converted = <<>> /\ delivered = <<>>

(* The body: a location goes before the typed text, and what has neither   *)
(* takes the placeholder of its attachment.                                *)
BodyPlaceOnly(e) ==
  IF e.place THEN "place" ELSE IF e.typed THEN "typed" ELSE "placeholder"
Body(e) ==
  CASE e.place /\ e.typed -> "place and typed"
    [] e.place /\ ~e.typed -> "place"
    [] ~e.place /\ e.typed -> "typed"
    [] OTHER -> "placeholder"
MarkedAlways(e, body) == e.file # "none"
Marked(e, body) == body = "placeholder"
Message(e, body, inline) ==
  [body |-> body, synthetic |-> Marked(e, body),
   data |-> IF e.file = "none" THEN "none" ELSE IF inline THEN "inline" ELSE "reference"]

Empty(e) == ~e.typed /\ ~e.place /\ e.file = "none"
NoPlace(e) == [e EXCEPT !.place = FALSE]
Loaded(e) == e.small /\ e.loads

(* bot.on('message'): photos and text documents are downloaded *)
FromTelegram(e) ==
  IF Empty(e) \/ e.unaddressed THEN Dropped_
  ELSE Message(e, Body(e), e.file \in {"image", "document"} /\ Loaded(e))
(* MessageCreate: no locations; an image that is too large is a document *)
FromDiscord(e) ==
  IF e.own \/ Empty(NoPlace(e)) THEN Dropped_
  ELSE Message(e, Body(NoPlace(e)), e.file \in {"image", "document"} /\ Loaded(e))
(* app.message: only text files are fetched *)
FromSlack(e) ==
  IF e.own \/ Empty(NoPlace(e)) \/ e.unaddressed THEN Dropped_
  ELSE Message(e, Body(NoPlace(e)), e.file = "document" /\ Loaded(e))
(* messages.upsert: captions are read from images only, stickers not at all *)
WhatsAppReads(e) ==
  [e EXCEPT !.typed = @ /\ e.file \in {"none", "image"}, !.file = IF @ = "sticker" THEN "none" ELSE @]
FromWhatsApp(e) ==
  LET r == WhatsAppReads(e) IN
  IF e.own \/ Empty(r) THEN Dropped_
  ELSE Message(r, Body(r), r.file \in {"image", "document"} /\ Loaded(e))
(* handleJsonRpcLine: a message without text is not delivered *)
FromSignal(e) ==
  IF ~e.typed THEN Dropped_ ELSE Message(e, "typed", e.file = "document" /\ Loaded(e))
(* handleWebhookEvent of LINE: an event is one thing, text or file or place *)
LineKind(e) == IF e.place THEN [e EXCEPT !.typed = FALSE, !.file = "none"]
               ELSE IF e.file # "none" THEN [e EXCEPT !.typed = FALSE] ELSE e
FromLine(e) ==
  LET k == LineKind(e) IN
  IF Empty(k) THEN Dropped_
  ELSE Message(k, Body(k), k.file \in {"image", "document"} /\ Loaded(e))
(* handleWebhookEvent of Google Chat *)
FromGoogleChat(e) ==
  IF Empty(NoPlace(e)) \/ e.unaddressed THEN Dropped_
  ELSE Message(e, Body(NoPlace(e)), e.file = "document" /\ Loaded(e))
(* the loop of pollImpl *)
FromIMessage(e) ==
  IF e.own \/ Empty(NoPlace(e)) THEN Dropped_
  ELSE Message(e, Body(NoPlace(e)), e.file \in {"image", "document"} /\ Loaded(e))

Converts(a, e, m) == converted' = [adapter |-> a, event |-> e, message |-> m] /\ UNCHANGED delivered

-----------------------------------------------------------------------------
(* Sends.  Each returns how often the text and which attachments went out. *)
Sent(text, files) == [texts |-> text, files |-> Cardinality(files)]
Usable(o, sources) == {i \in DOMAIN o.media : o.media[i][1] \in sources}
Once(b) == IF b THEN 1 ELSE 0

(* resolveMediaSource: everything but a rejected source can be sent *)
Resolved(o) == Usable(o, {"remote", "local", "buffer"})

(* Telegram: the text travels as the caption of the first attachment       *)
(* unless it is too long; then it follows in messages of its own.          *)
ByTelegramTwice(o) ==
  IF o.media = <<>> THEN Sent(Once(o.text), {})
  ELSE Sent(Once(o.text /\ 1 \in Resolved(o)) + Once(o.text /\ o.long), Resolved(o))
ByTelegram(o) ==
  IF o.media = <<>> THEN Sent(Once(o.text), {})
  ELSE Sent(Once(o.text /\ (o.long \/ 1 \in Resolved(o))), Resolved(o))
(* WhatsApp: web addresses only; the caption is the text, on an image *)
ByWhatsApp(o) ==
  IF o.media = <<>> THEN Sent(Once(o.text), {})
  ELSE Sent(Once(o.text /\ 1 \in Usable(o, {"remote"}) /\ o.media[1][2] = "image"), Usable(o, {"remote"}))
(* Discord: one message holds both *)
ByDiscord(o) == Sent(Once(o.text), Resolved(o))
(* Signal and iMessage take files by local path, LINE by public address,   *)
(* and Slack and Google Chat send text only.                               *)
BySignal(o) == Sent(Once(o.text), Usable(o, {"local"}))
ByIMessage(o) == Sent(Once(o.text), Usable(o, {"local"}))
ByLine(o) == Sent(Once(o.text), Usable(o, {"remote"}))
BySlack(o) == Sent(Once(o.text), {})
ByGoogleChat(o) == Sent(Once(o.text), {})

Sends(a, o, s) == delivered' = [adapter |-> a, message |-> o, sent |-> s] /\ UNCHANGED converted

MessagesNext ==
  \/ \E e \in InboundEvents :
       /\ converted = <<>> /\ delivered = <<>>
       /\ \/ Converts("telegram", e, FromTelegram(e)) \/ Converts("discord", e, FromDiscord(e))
          \/ Converts("slack", e, FromSlack(e))       \/ Converts("whatsapp", e, FromWhatsApp(e))
          \/ Converts("signal", e, FromSignal(e))     \/ Converts("line", e, FromLine(e))
          \/ Converts("googlechat", e, FromGoogleChat(e)) \/ Converts("imessage", e, FromIMessage(e))
  \/ \E o \in OutboundMessages :
       /\ converted = <<>> /\ delivered = <<>>
       /\ \/ Sends("telegram", o, ByTelegram(o)) \/ Sends("discord", o, ByDiscord(o))
          \/ Sends("slack", o, BySlack(o))       \/ Sends("whatsapp", o, ByWhatsApp(o))
          \/ Sends("signal", o, BySignal(o))     \/ Sends("line", o, ByLine(o))
          \/ Sends("googlechat", o, ByGoogleChat(o)) \/ Sends("imessage", o, ByIMessage(o))

-----------------------------------------------------------------------------
(* What a user typed reaches the agent: a message with text for the bot is *)
(* not dropped and its text is in the body, with a location or an          *)
(* attachment beside it too.  (WhatsApp reads no captions but those of     *)
(* images, and a LINE event is never text and something else at once.)     *)
TypedTextArrives ==
  converted = <<>> \/
  LET e == converted.event  m == converted.message IN
  e.typed /\ ~e.own /\ ~e.unaddressed
    /\ (converted.adapter = "whatsapp" => e.file \in {"none", "image"})
    /\ (converted.adapter = "line" => e.file = "none" /\ ~e.place)
  => m.body \in {"typed", "place and typed"}

(* A placeholder is marked synthetic and nothing else is: the queue drops  *)
(* synthetic bodies when real text is merged with them.                    *)
SyntheticIsPlaceholder ==
  converted = <<>> \/ (converted.message.synthetic <=> converted.message.body = "placeholder")

(* The text of a reply goes out at most once, whatever its attachments.    *)
TextSentOnce == delivered = <<>> \/ delivered.sent.texts <= 1

(* A refused attachment costs the attachment, not the text: "media         *)
(* resolution failed — skipping attachment".                               *)
TextSurvivesAttachment == delivered = <<>> \/ (delivered.message.text => delivered.sent.texts >= 1)

-----------------------------------------------------------------------------
(***************************************************************************)
(* Who may write: BaseChannel.isAllowed with the access settings the       *)
(* gateway can change while it runs, the pairing store that the daemon and *)
(* `flopsy pairing` both write (two processes, one SQLite statement at a   *)
(* time), and iMessage's poll.                                             *)
(***************************************************************************)
CONSTANTS
  Senders,       \* sender ids of one channel
  MaxCodes,      \* bound: pairing codes issued
  CodeTTL,       \* PAIRING_PENDING_TTL_MS, in ticks
  MaxPendingPairs, \* PAIRING_MAX_PENDING_PER_CHANNEL
  MaxEvents,     \* bound: platform events
  MaxDates       \* bound: dates of iMessage rows

ASSUME InboundBounds == {MaxCodes, CodeTTL, MaxPendingPairs, MaxEvents, MaxDates} \subseteq Nat

NoCode == [code |-> 0, age |-> 0]
NoSender == "nobody"

VARIABLES
  access,     \* dmPolicy, allowFrom, blockedFrom of the channel's config
  pairs,      \* pairing_pending, by sender: code and age
  approved,   \* pairing_approved
  codes,      \* codes issued so far
  asking,     \* the sender whose requestCode stands between its count and its insert
  operator,   \* the row `pairing approve` has read and not yet applied
  events,     \* events so far
  imsg        \* the iMessage adapter: rows in the database, lastTimestamp, the poll

inboundVars == <<access, pairs, approved, codes, asking, operator, events, imsg>>
pairingVars == <<pairs, approved, codes, asking, operator>>

Pending == {s \in Senders : pairs[s].code # 0}

InboundInit ==
  /\ access \in [dm : {"pairing"}, allow : {{}}, blocked : {{}}]
  /\ pairs = [s \in Senders |-> NoCode] /\ approved = {} /\ codes = 0
  /\ asking = NoSender /\ operator = NoSender
  /\ events = 0
  /\ imsg = [rows |-> 0, last |-> 0, batch |-> 0, next |-> 0, polling |-> FALSE, seen |-> {}]

-----------------------------------------------------------------------------
(* isAllowed for a direct message.  Pairing ends in a request for a code   *)
(* when the sender is unknown; groups are admitted by their own policy.    *)
Allowed(s) ==
  /\ s \notin access.blocked
  /\ \/ access.dm = "open"
     \/ access.dm \in {"allowlist", "pairing"} /\ s \in access.allow
     \/ access.dm = "pairing" /\ s \in approved
AsksForCode(s) == access.dm = "pairing" /\ s \notin access.blocked /\ ~Allowed(s)

(* updateAccessControl, from a configuration reload *)
AccessChanges(a) ==
  /\ a # access /\ events < MaxEvents /\ asking = NoSender
  /\ access' = a /\ events' = events + 1
  /\ UNCHANGED <<pairs, approved, codes, asking, operator, imsg>>

(* requestCode: a live code is handed out again; otherwise expired rows    *)
(* go, the rest are counted, and the insert is a statement of its own.     *)
Expired(p) == p.code # 0 /\ p.age >= CodeTTL
Sweepable(p) == p.code # 0 /\ p.age > CodeTTL
UnderPendingCapLate(n) == n <= MaxPendingPairs
UnderPendingCap(n) == n < MaxPendingPairs
ReissueAlways(s) == TRUE
NeedsFreshCode(s) == pairs[s].code = 0 \/ Expired(pairs[s])
CodeRequested(s) ==
  LET swept == [t \in Senders |-> IF Sweepable(pairs[t]) THEN NoCode ELSE pairs[t]]
      count == Cardinality({t \in Senders : swept[t].code # 0})
      fresh == NeedsFreshCode(s) IN
  /\ pairs' = IF fresh THEN swept ELSE pairs
  /\ asking' = IF fresh /\ UnderPendingCap(count) /\ codes < MaxCodes THEN s ELSE asking
  /\ UNCHANGED <<approved, codes, operator>>
CodeInserted ==
  /\ asking # NoSender
  /\ codes' = codes + 1
  /\ pairs' = [pairs EXCEPT ![asking] = [code |-> codes + 1, age |-> 0]]
  /\ asking' = NoSender
  /\ UNCHANGED <<access, approved, operator, events, imsg>>
CodesAge ==
  /\ asking = NoSender /\ \E s \in Pending : pairs[s].age <= CodeTTL
  /\ pairs' = [s \in Senders |-> IF s \in Pending /\ pairs[s].age <= CodeTTL
                                 THEN [pairs[s] EXCEPT !.age = @ + 1] ELSE pairs[s]]
  /\ UNCHANGED <<access, approved, codes, asking, operator, events, imsg>>

(* flopsy pairing approve: read the row, then grant and delete; an expired *)
(* row is deleted instead.                                                 *)
OperatorReads(s) ==
  /\ operator = NoSender /\ s \in Pending
  /\ operator' = IF Expired(pairs[s]) THEN NoSender ELSE s
  /\ pairs' = IF Expired(pairs[s]) THEN [pairs EXCEPT ![s] = NoCode] ELSE pairs
  /\ UNCHANGED <<access, approved, codes, asking, events, imsg>>
OperatorGrants ==
  /\ operator # NoSender
  /\ approved' = approved \cup {operator}
  /\ pairs' = [pairs EXCEPT ![operator] = NoCode]
  /\ operator' = NoSender
  /\ UNCHANGED <<access, codes, asking, events, imsg>>
(* revoke, and clear-pending with and without --all *)
OperatorRevokes(s) ==
  /\ s \in approved /\ approved' = approved \ {s}
  /\ UNCHANGED <<access, pairs, codes, asking, operator, events, imsg>>
OperatorClears(all) ==
  /\ \E s \in Pending : all \/ Sweepable(pairs[s])
  /\ pairs' = [s \in Senders |-> IF all \/ Sweepable(pairs[s]) THEN NoCode ELSE pairs[s]]
  /\ UNCHANGED <<access, approved, codes, asking, operator, events, imsg>>

-----------------------------------------------------------------------------
(* A direct message arrives: the adapter's handler drops it unless the     *)
(* sender is allowed, and isAllowed itself asks for a code.  Base gateway's *)
(* handler mails the code to the sender, whether it is new or not.         *)
Arrives(s) ==
  /\ events < MaxEvents /\ asking = NoSender
  /\ events' = events + 1
  /\ IF AsksForCode(s) THEN CodeRequested(s) ELSE UNCHANGED pairingVars
  /\ UNCHANGED <<access, imsg>>

-----------------------------------------------------------------------------
(* iMessage: rows appear with growing dates.  A poll reads the rows after  *)
(* lastTimestamp, emits them one by one, and moves lastTimestamp only when *)
(* all are emitted: a failing handler leaves it where it was.              *)
RowArrives ==
  /\ imsg.rows < MaxDates
  /\ imsg' = [imsg EXCEPT !.rows = @ + 1]
  /\ UNCHANGED <<access, pairs, approved, codes, asking, operator, events>>
PollFromStart(m) == [m EXCEPT !.polling = TRUE, !.batch = m.rows, !.next = m.last + 1, !.last = m.rows]
PollFrom(m) == [m EXCEPT !.polling = TRUE, !.batch = m.rows, !.next = m.last + 1]
PollStarts ==
  /\ ~imsg.polling
  /\ imsg' = PollFrom(imsg)
  /\ UNCHANGED <<access, pairs, approved, codes, asking, operator, events>>
PollEmits(ok) ==
  /\ imsg.polling /\ imsg.next <= imsg.batch
  /\ imsg' = IF ok THEN [imsg EXCEPT !.next = @ + 1, !.seen = @ \cup {imsg.next}]
             ELSE [imsg EXCEPT !.polling = FALSE]
  /\ UNCHANGED <<access, pairs, approved, codes, asking, operator, events>>
PollEnds ==
  /\ imsg.polling /\ imsg.next > imsg.batch
  /\ imsg' = [imsg EXCEPT !.polling = FALSE, !.last = IF imsg.batch > 0 /\ imsg.batch > imsg.last THEN imsg.batch ELSE @]
  /\ UNCHANGED <<access, pairs, approved, codes, asking, operator, events>>

InboundNext ==
  \/ \E a \in [dm : {"pairing", "allowlist"}, allow : {{}, Senders}, blocked : {{}, Senders}] : AccessChanges(a)
  \/ CodeInserted \/ CodesAge \/ OperatorGrants
  \/ \E s \in Senders : OperatorReads(s) \/ OperatorRevokes(s)
  \/ \E b \in BOOLEAN : OperatorClears(b) \/ PollEmits(b)
  \/ \E s \in Senders : Arrives(s)
  \/ RowArrives \/ PollStarts \/ PollEnds

-----------------------------------------------------------------------------
(* No more requests wait for the operator than the cap, although codes     *)
(* expire, are approved and are cleared by another process in between.     *)
PairingCap == Cardinality(Pending) <= MaxPendingPairs

(* A code a sender was given and that has not expired is never replaced by *)
(* another: the operator may be typing it.                                 *)
LiveCodeKept ==
  [][\A s \in Senders : pairs[s].code # 0 /\ ~Expired(pairs[s]) => pairs'[s].code \in {0, pairs[s].code}]_pairs

(* lastTimestamp never passes a row that was not emitted, although a       *)
(* handler may fail in the middle of a batch and rows arrive during it.    *)
PollSkipsNothing == \A r \in 1..imsg.last : r \in imsg.seen
=============================================================================
