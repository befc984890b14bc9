--------------------------- MODULE RealtimeStream ---------------------------
(***************************************************************************)
(* The two streams of one realtime session across reconnections            *)
(* (_client_loop and _provider_loop of GeminiInterviewGateway,             *)
(* record_event of ProductInterviewService).                               *)
(*                                                                         *)
(* The loops take turns at their awaits.  Each records an event in a       *)
(* transaction of its own and passes it on after that: audio to the        *)
(* provider, unless its id was recorded before; content to the candidate.  *)
(* A client that reconnects sends again what it is not sure about, and a   *)
(* provider that resumes may repeat its last message.  Ids are the ones of *)
(* their makers; a content without one is numbered within its connection   *)
(* and never taken for a repetition.                                       *)
(***************************************************************************)
EXTENDS Naturals, Sequences, FiniteSets

CONSTANTS
  MaxAudio,        \* bound: audio events of the client
  MaxContent,      \* bound: messages of the provider
  MaxDrops         \* bound: lost connections

ASSUME StreamAssumption == MaxAudio \in Nat /\ MaxContent \in Nat /\ MaxDrops \in Nat

Nothing == 0

VARIABLES
  timeline,    \* the rows of ProductInterviewEvent in the order of their sequence
  numbers,     \* their sequence numbers
  upstream,    \* the audio events the provider has been sent
  downstream,  \* the contents the candidate has been sent
  holding,     \* what each loop has recorded and not passed on
  made,        \* events made so far by the client and by the provider
  again,       \* from where on each side repeats after a reconnection
  link,        \* the connection is up
  drops        \* connections lost so far

streamVars == <<timeline, numbers, upstream, downstream, holding, made, again, link, drops>>

Loops == {"client", "provider"}

StreamTypeOK ==
  /\ timeline \in Seq(Loops \X (1 .. MaxAudio + MaxContent))
  /\ numbers \in Seq(Nat)
  /\ holding \in [Loops -> 0 .. MaxAudio + MaxContent]
  /\ made.client \in 0 .. MaxAudio /\ made.provider \in 0 .. MaxContent
  /\ \A l \in Loops : again[l] \in 1 .. made[l] + 1
  /\ link \in BOOLEAN /\ drops \in 0 .. MaxDrops

StreamInit ==
  /\ timeline = <<>> /\ numbers = <<>>
  /\ upstream = <<>> /\ downstream = <<>>
  /\ holding = [l \in Loops |-> Nothing]
  /\ made = [l \in Loops |-> 0]
  /\ again = [l \in Loops |-> 1]
  /\ link = TRUE
  /\ drops = 0
-----------------------------------------------------------------------------
Recorded(l, i) == \E n \in DOMAIN timeline : timeline[n] = <<l, i>>

\* max(sequence) + 1, under the lock of the interview.
NextNumber == IF numbers = <<>> THEN 1 ELSE numbers[Len(numbers)] + 1

\* record_event: an event with a known id is not written again.
Record(l, i) ==
  IF Recorded(l, i) THEN UNCHANGED <<timeline, numbers>>
  ELSE /\ timeline' = Append(timeline, <<l, i>>)
       /\ numbers' = Append(numbers, NextNumber)

Limit(l) == IF l = "client" THEN MaxAudio ELSE MaxContent

\* The next event, or one that is repeated.
Incoming(l, i) ==
  /\ link /\ holding[l] = Nothing
  /\ i \in again[l] .. made[l] + 1 /\ i <= Limit(l)
  /\ made' = [made EXCEPT ![l] = IF i > @ THEN i ELSE @]
  /\ again' = [again EXCEPT ![l] = i + 1]

\* Fault: a recorded event is forwarded again.
Always(i) == TRUE

ToForward(i) == ~Recorded("client", i)

ReceiveAudio(i) ==
  /\ Incoming("client", i)
  /\ Record("client", i)
  /\ holding' = [holding EXCEPT !.client = IF ToForward(i) THEN i ELSE Nothing]
  /\ UNCHANGED <<upstream, downstream, link, drops>>

ForwardAudio ==
  /\ link /\ holding.client # Nothing
  /\ upstream' = Append(upstream, holding.client)
  /\ holding' = [holding EXCEPT !.client = Nothing]
  /\ UNCHANGED <<timeline, numbers, downstream, made, again, link, drops>>

\* Content is shown also when its id is known.
ReceiveContent(i) ==
  /\ Incoming("provider", i)
  /\ Record("provider", i)
  /\ holding' = [holding EXCEPT !.provider = i]
  /\ UNCHANGED <<upstream, downstream, link, drops>>

ShowContent ==
  /\ link /\ holding.provider # Nothing
  /\ downstream' = Append(downstream, holding.provider)
  /\ holding' = [holding EXCEPT !.provider = Nothing]
  /\ UNCHANGED <<timeline, numbers, upstream, made, again, link, drops>>

\* Either socket closes, or the session is handed over: both loops end.
DropLink ==
  /\ link /\ drops < MaxDrops
  /\ link' = FALSE /\ drops' = drops + 1
  /\ holding' = [l \in Loops |-> Nothing]
  /\ UNCHANGED <<timeline, numbers, upstream, downstream, made, again>>

\* With a new token and the resumption handle.
Reconnect ==
  /\ ~link
  /\ link' = TRUE
  /\ again' \in {f \in [Loops -> 1 .. MaxAudio + MaxContent] :
                   \A l \in Loops : f[l] \in {made[l], made[l] + 1} \ {0}}
  /\ UNCHANGED <<timeline, numbers, upstream, downstream, holding, made, drops>>

StreamNext ==
  \/ \E i \in 1 .. MaxAudio : ReceiveAudio(i)
  \/ \E i \in 1 .. MaxContent : ReceiveContent(i)
  \/ ForwardAudio \/ ShowContent \/ DropLink \/ Reconnect
-----------------------------------------------------------------------------
(* Properties.                                                             *)

Distinct(s) == \A i, k \in DOMAIN s : s[i] = s[k] => i = k
RecordedAudio == {i \in 1 .. MaxAudio : Recorded("client", i)}

\* NFR-AVL-005: across reconnections the timeline has no gaps and no event twice;
\* the provider hears no audio twice or out of order, and each lost connection
\* costs it at most one recorded chunk; the candidate sees only recorded content.
TranscriptKept ==
  /\ numbers = [n \in 1 .. Len(timeline) |-> n]
  /\ Distinct(timeline) /\ Distinct(upstream)
  /\ \A n \in 1 .. Len(upstream) - 1 : upstream[n] < upstream[n + 1]
  /\ \A n \in DOMAIN upstream : upstream[n] \in RecordedAudio
  /\ Cardinality(RecordedAudio) <=
       Len(upstream) + drops + (IF holding.client = Nothing THEN 0 ELSE 1)
  /\ \A n \in DOMAIN downstream : Recorded("provider", downstream[n])
=============================================================================
