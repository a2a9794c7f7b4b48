------------------------------ MODULE Composer ------------------------------
(***************************************************************************)
(* The message window of the client: the recipient button, the Send button *)
(* and the text box, with the list outMsgs that is kept from one click to  *)
(* the next, and what the server makes of the PollResponses they write.    *)
(*                                                                         *)
(* A text is a sequence of characters, told apart by where they were       *)
(* typed.  The head of a group message counts one character for its words  *)
(* and one for each name.                                                  *)
(***************************************************************************)
EXTENDS Naturals, Sequences, SequencesExt

CONSTANTS
    Names,        \* what can stand between the commas of the recipient field
    BadNames,     \* the names that are empty or do not match the pattern
    Overlong,     \* the names longer than MAX_UNAME_LEN
    BitLength,    \* MAX_MSG_LEN: characters of one MsgMessage
    MaxBits,      \* MAX_MSGS
    Block,        \* block of the cipher, in characters
    MaxLength,    \* bound: characters typed
    MaxDrafts,    \* bound: texts typed
    MaxClicks     \* bound: clicks of the Send button

ASSUME NamesAssumption == BadNames \cup Overlong \subseteq Names
\* doEncryption drops all blocks but the last, and is right only because a
\* MsgMessage is never longer than a block (15 characters, 16 bytes).
ASSUME LengthsAssumption ==
    /\ BitLength \in Nat \ {0} /\ Block \in Nat /\ BitLength <= Block
    /\ {MaxBits, MaxLength, MaxDrafts, MaxClicks} \subseteq Nat

VARIABLES
    recipients,   \* recipientUsernames
    box,          \* the text in outgoingMessageBox
    dialog,       \* the dialog raised by the last click
    sending,      \* is the Send button's handler in its loop?
    todo,         \* the recipients the loop has not come to
    outMsgs,      \* the list of the constructor, shared by all clicks
    connected,    \* can the socket be written?
    written,      \* the PollResponses written, with what they were meant to be
    drafts,       \* history: number of texts typed
    failures,     \* history: drafts with a click that threw
    stepped,      \* history: has the clock been set back during a click?
    clicks

window  == <<recipients, box, dialog>>
loop    == <<sending, todo, outMsgs>>
history == <<drafts, failures, stepped, clicks>>
vars    == <<window, loop, connected, written, history>>

-----------------------------------------------------------------------------
(* Splitting a text, and putting it together again.                        *)

\* Fault: the rest is taken even where a bit is full.
BitLenRest(message, i) == Len(message) % BitLength

\* messageLen of the i-th bit.
BitLen(message, i) ==
    IF Len(message) - (i - 1) * BitLength < BitLength
    THEN Len(message) % BitLength
    ELSE BitLength

\* CBC with padding, of at most one block: characters are added up to the
\* next block, each the number of those added.  Of no characters, nothing.
doEncryption(message) ==
    LET pad == Block - (Len(message) % Block)
    IN IF message = << >> THEN << >> ELSE message \o [i \in 1 .. pad |-> pad]

\* The padding is taken off.  Without a block Crypto++ throws, and the string
\* stays empty.
aesDecrypt(cipher) ==
    IF cipher = << >> THEN << >> ELSE SubSeq(cipher, 1, Len(cipher) - Last(cipher))

Bit(message, to, i) ==
    LET max  == IF BitLen(message, i) < BitLength THEN Len(message) ELSE BitLength * i
        text == SubSeq(message, (i - 1) * BitLength + 1, max)
    IN [to |-> to, number |-> i, length |-> BitLen(message, i),
        text |-> text, encrypted |-> doEncryption(text)]

\* One bit for every BitLength characters begun.
Bits(message, to) ==
    [i \in 1 .. (Len(message) + BitLength - 1) \div BitLength |-> Bit(message, to, i)]

\* The constructor of MsgMessage throws.
Refuses(bit) == bit.to \in Overlong \/ bit.length # Len(bit.text) \/ bit.length > BitLength

\* More than one recipient: every one of them is told of the others.
Message ==
    (IF Len(recipients) > 1 THEN <<"group">> \o recipients ELSE << >>) \o box

\* The server decrypts the bits and joins them in the order they come, whatever
\* their numbers, and takes the recipient from the first.
Received(bits) ==
    [to |-> bits[1].to,
     text |-> FlattenSeq([i \in DOMAIN bits |-> aesDecrypt(bits[i].encrypted)])]

-----------------------------------------------------------------------------
(* The window.                                                             *)

\* The recipient button keeps the names that are well formed.
EnterRecipients(names) ==
    /\ ~sending
    /\ recipients' = FlattenSeq([i \in DOMAIN names |->
                        IF names[i] \in BadNames THEN << >> ELSE <<names[i]>>])
    /\ dialog' = IF recipients' = << >> THEN "recipient" ELSE "none"
    /\ UNCHANGED <<box, loop, connected, written, history>>

\* The user types another text.
Type(n) ==
    /\ ~sending
    /\ drafts < MaxDrafts
    /\ drafts' = drafts + 1
    /\ box' = [i \in 1 .. n |-> <<drafts + 1, i>>]
    /\ UNCHANGED <<recipients, dialog, loop, connected, written, failures,
                   stepped, clicks>>

\* The Send button, up to its loop over the recipients.
Click ==
    /\ ~sending
    /\ clicks < MaxClicks
    /\ clicks' = clicks + 1
    /\ IF Len(box) > 0 /\ Len(box) < BitLength * MaxBits
       THEN sending' = TRUE /\ todo' = recipients /\ dialog' = "none"
       ELSE /\ dialog' = IF Len(box) < BitLength * MaxBits THEN "tooLong" ELSE "none"
            /\ UNCHANGED <<sending, todo>>
    /\ UNCHANGED <<recipients, box, outMsgs, connected, written, drafts,
                   failures, stepped>>

\* A BabbleException: logged, and the click is over with the text in the box
\* and in outMsgs what has been added so far.
Throw(added) ==
    /\ sending' = FALSE
    /\ todo' = << >>
    /\ outMsgs' = outMsgs \o added
    /\ failures' = failures \cup {drafts}
    /\ UNCHANGED written

\* Fault: the list is only cleared when the click is over.
SendNextUncleared ==
    /\ sending /\ todo # << >>
    /\ LET to   == Head(todo)
           bits == Bits(Message, to)
       IN /\ connected
          /\ written' = Append(written, [bits |-> outMsgs \o bits, to |-> to,
                                         text |-> Message, draft |-> drafts,
                                         click |-> clicks])
          /\ outMsgs' = outMsgs \o bits
    /\ todo' = Tail(todo)
    /\ UNCHANGED <<window, sending, connected, history>>

\* One turn of the loop: the bits for a recipient are added to the list, the
\* list is written and cleared.  A constructor throws at the first bit it
\* refuses, or at any bit when the clock is set back before it compares the
\* time; writing throws when the connection is gone.
SendNext ==
    /\ sending /\ todo # << >>
    /\ LET to   == Head(todo)
           bits == Bits(Message, to)
           refused == {i \in DOMAIN bits : Refuses(bits[i])}
       IN \/ /\ refused = {} /\ connected
             /\ written' = Append(written, [bits |-> outMsgs \o bits, to |-> to,
                                            text |-> Message, draft |-> drafts,
                                            click |-> clicks])
             /\ outMsgs' = << >>
             /\ todo' = Tail(todo)
             /\ UNCHANGED <<sending, failures, stepped>>
          \/ /\ refused = {} /\ ~connected
             /\ Throw(bits)
             /\ UNCHANGED stepped
          \/ \E i \in refused :
             /\ \A j \in refused : i <= j
             /\ Throw(SubSeq(bits, 1, i - 1))
             /\ UNCHANGED stepped
          \/ \E i \in DOMAIN bits :
             /\ \A j \in refused : i < j
             /\ Throw(SubSeq(bits, 1, i - 1))
             /\ stepped' = TRUE
    /\ UNCHANGED <<window, connected, drafts, clicks>>

\* Fault: the text stays in the box.
FinishKept ==
    /\ sending /\ todo = << >>
    /\ sending' = FALSE
    /\ UNCHANGED <<window, todo, outMsgs, connected, written, history>>

\* Fault: the box is cleared although recipients are left.
FinishEarly ==
    /\ sending
    /\ sending' = FALSE
    /\ todo' = << >>
    /\ box' = << >>
    /\ UNCHANGED <<recipients, dialog, outMsgs, connected, written, history>>

\* After the last recipient the box is cleared.
Finish ==
    /\ sending /\ todo = << >>
    /\ sending' = FALSE
    /\ box' = << >>
    /\ UNCHANGED <<recipients, dialog, todo, outMsgs, connected, written, history>>

\* The server closes the connection.
Disconnect ==
    /\ connected
    /\ connected' = FALSE
    /\ UNCHANGED <<window, loop, written, history>>

-----------------------------------------------------------------------------
Init ==
    /\ recipients = << >> /\ box = << >> /\ dialog = "none"
    /\ sending = FALSE /\ todo = << >> /\ outMsgs = << >>
    /\ connected = TRUE
    /\ written = << >>
    /\ drafts = 0 /\ failures = {} /\ stepped = FALSE /\ clicks = 0

\* Up to two names in the recipient field.
Lists == {<<n>> : n \in Names} \cup (Names \X Names)

Next ==
    \/ \E names \in Lists : EnterRecipients(names)
    \/ \E n \in 0 .. MaxLength : Type(n)
    \/ Click \/ SendNext \/ Finish \/ Disconnect

Spec == Init /\ [][Next]_vars

-----------------------------------------------------------------------------
(* What the window promises.                                               *)

\* Unless the clock was set back during a click, the server puts together
\* from each PollResponse the text that was composed, for the recipient it was
\* composed for: no length is split wrongly, and what an exception leaves in
\* outMsgs is never written with a later text.
WholeTexts ==
    stepped \/ \A i \in DOMAIN written :
        Received(written[i].bits) = [to |-> written[i].to, text |-> written[i].text]

\* The lengths the Send button computes are the lengths MsgMessage expects,
\* for every length of the text: a click fails only on an overlong name, a
\* lost connection or a clock set back.
NoLengthRefused ==
    [][failures' # failures => stepped' \/ ~connected \/ Head(todo) \in Overlong]_vars

\* A text is sent in two clicks, and so to the same recipients twice, only if
\* an exception ended the first click after some of them had been served.
RepeatOnlyAfterFailure ==
    \A i, j \in DOMAIN written :
        written[i].draft = written[j].draft /\ written[i].click # written[j].click
            => written[i].draft \in failures

\* A click takes the text out of the box only when all recipients have been
\* written to.  (Without recipients it is taken out and not sent at all.)
ClearedOnlyIfSent ==
    [][box # << >> /\ box' = << >> /\ drafts' = drafts =>
         \A k \in 1 .. Len(recipients) :
             \E i \in DOMAIN written :
                 /\ written[i].draft = drafts
                 /\ written[i].to = recipients[k]]_vars

\* The dialog "Message was too long." is shown for a text that is too long.
TooLongDialog ==
    dialog = "tooLong" => Len(box) >= BitLength * MaxBits
=============================================================================
