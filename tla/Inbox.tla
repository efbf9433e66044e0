--------------------------------- MODULE Inbox ---------------------------------
(***************************************************************************)
(* One provider's channel, the listener and the inbox table.  The push     *)
(* feed may lose, delay, reorder or repeat a message; the poll fetches the *)
(* newest PollLimit of the channel.  The listener takes only messages      *)
(* posted after its own start.  A message is its place in the channel.     *)
(***************************************************************************)
EXTENDS Integers, Sequences, FiniteSets

CONSTANTS
  Channels,     \* what may be posted: sequences of messages
  MaxMessages,  \* bound: the length of the longest
  PollLimit,    \* POLL_LIMIT
  MaxRestarts   \* bound: restarts of the listener

Msgs == 1..MaxMessages

\* An entry a template parses, one that only looks like an entry, and anything else.
Kinds == {"entry", "entry_like", "other"}
NoMsg == 0
Message == [kind : Kinds, reply_to : {NoMsg} \union Msgs]

ASSUME InboxAssumption ==
  /\ MaxMessages \in Nat /\ PollLimit \in Nat \ {0} /\ MaxRestarts \in Nat
  /\ \A c \in Channels : c \in Seq(Message) /\ Len(c) <= MaxMessages

VARIABLES
  channel,    \* the messages posted so far
  since,      \* the first message the listener takes
  inbox,      \* the inbox table: each message's row
  late,       \* messages stored after a newer one (history)
  restarts    \* restarts of the listener so far

inboxVars == <<channel, since, inbox, late, restarts>>

InboxInit ==
  /\ channel = << >>
  /\ since = 1 /\ restarts = 0
  /\ inbox = [m \in Msgs |-> "absent"]
  /\ late = {}

Post ==
  /\ \E c \in Channels :
       /\ Len(channel) < Len(c) /\ channel = SubSeq(c, 1, Len(channel))
       /\ channel' = Append(channel, c[Len(channel) + 1])
  /\ UNCHANGED <<since, restarts, inbox, late>>

\* Mutant: INSERT OR REPLACE.
AddInboxAnew(S) ==
  /\ inbox' = [m \in Msgs |-> IF m \in S THEN "new" ELSE inbox[m]]
  /\ late' = late \union {m \in S : inbox[m] = "absent" /\ \E k \in (m + 1)..MaxMessages : inbox[k] # "absent"}

\* add_inbox for each message of S: INSERT OR IGNORE.
AddInbox(S) ==
  /\ inbox' = [m \in Msgs |-> IF m \in S /\ inbox[m] = "absent" THEN "new" ELSE inbox[m]]
  /\ late' = late \union {m \in S : inbox[m] = "absent" /\ \E k \in (m + 1)..MaxMessages : inbox[k] # "absent"}

\* on_message
Push(m) ==
  /\ m \in since..Len(channel)
  /\ AddInbox({m})
  /\ UNCHANGED <<channel, since, restarts>>

\* Mutant: one message short.
NewestShort == {m \in 1..Len(channel) : m > Len(channel) - PollLimit + 1}

Newest == {m \in 1..Len(channel) : m > Len(channel) - PollLimit}

\* poll_once
Poll ==
  /\ AddInbox({m \in Newest : m >= since})
  /\ UNCHANGED <<channel, since, restarts>>

\* run_listener after some time down: only messages from now on.
RestartListener ==
  /\ since # Len(channel) + 1
  /\ restarts < MaxRestarts /\ restarts' = restarts + 1
  /\ since' = Len(channel) + 1
  /\ UNCHANGED <<channel, inbox, late>>

Listener == (\E m \in Msgs : Push(m)) \/ Poll \/ RestartListener

InboxTypeOK ==
  /\ channel \in Seq(Message) /\ Len(channel) <= MaxMessages
  /\ since \in 1..(MaxMessages + 1) /\ restarts \in 0..MaxRestarts
  /\ inbox \in [Msgs -> {"absent", "new", "processed"}]
  /\ late \subseteq Msgs

(* A message posted while the listener runs reaches the inbox although its *)
(* push was lost, unless PollLimit newer ones followed it, or the listener *)
(* was restarted, before a poll came (listener.py:32-47, 68).              *)
NothingMissed ==
  []<>(\A m \in since..Len(channel) : inbox[m] # "absent" \/ Len(channel) >= m + PollLimit)
===============================================================================
