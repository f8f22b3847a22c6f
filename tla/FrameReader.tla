---------------------------- MODULE FrameReader ----------------------------
(***************************************************************************)
(* FrameReader of ipc/codec.rs: newline-delimited frames read from one     *)
(* connection by a future that may be dropped at every point where it      *)
(* waits, because the session reads inside a select! (unix_server.rs) that *)
(* a broadcast may win.  What has been read of a frame stays in partial;   *)
(* the number of bytes a single call has read does not.                    *)
(*                                                                         *)
(* The peer writes any bytes.  Of a byte only this much matters: it is the *)
(* delimiter, it is text, or it makes its frame invalid UTF-8.             *)
(***************************************************************************)
EXTENDS Integers, Sequences, FiniteSets, SequencesExt

CONSTANTS
  Limit,    \* MAX_IPC_LINE_BYTES
  MaxBytes  \* bound: how many bytes the peer writes

ASSUME LimitAssumption == Limit \in Nat \ {0} /\ MaxBytes \in Nat

Byte == {"newline", "text", "binary"}

VARIABLES
  wire,     \* the bytes the peer has written so far
  peer,     \* whether the connection is open, closed, or has failed
  taken,    \* how many of them have been read
  partial,  \* the bytes of a frame that is not complete
  call,     \* the bytes read by the call of next_frame under way, -1 if there is none
  frames,   \* what the calls have returned so far
  verdict,  \* how the last call ended the connection
  resumed   \* history: the frame in partial was begun by a call that was dropped

readerVars == <<wire, peer, taken, partial, call, frames, verdict, resumed>>

NoCall == -1
Verdict == {"none", "closed", "oversized", "truncated", "not utf-8", "io"}

ReaderTypeOK ==
  /\ wire \in Seq(Byte) /\ Len(wire) <= MaxBytes
  /\ peer \in {"open", "closed", "failed"}
  /\ taken \in 0 .. Len(wire)
  /\ partial \in Seq(Byte) /\ frames \in Seq(Seq(Byte))
  /\ call \in NoCall .. Limit + 1
  /\ verdict \in Verdict /\ resumed \in BOOLEAN

ReaderInit ==
  /\ wire = <<>> /\ peer = "open" /\ taken = 0
  /\ partial = <<>> /\ call = NoCall /\ frames = <<>>
  /\ verdict = "none" /\ resumed = FALSE

PeerWrites(byte) ==
  /\ peer = "open" /\ Len(wire) < MaxBytes
  /\ wire' = Append(wire, byte)
  /\ UNCHANGED <<peer, taken, partial, call, frames, verdict, resumed>>

(* What was written before an orderly end can still be read; a failure     *)
(* takes it away.                                                          *)
PeerEnds(how) ==
  /\ peer = "open" /\ peer' = how
  /\ UNCHANGED <<wire, taken, partial, call, frames, verdict, resumed>>

(* Plausible bugs: a buffer that lives in the future, a limit that leaves   *)
(* no room for the delimiter, an end that is told from the count alone.    *)
Forgets == partial' = <<>>
NoRoom(n) == Limit - 1 - n
AnyEnd(n) == IF n = 0 THEN "closed" ELSE "oversized"

(* How much more of the current frame may be read.                         *)
Budget(n) == Limit + 1 - n

Ends(how) ==
  /\ verdict' = how /\ call' = NoCall
  /\ UNCHANGED <<taken, partial, frames, resumed>>

(* next_frame is called: with the frame over the limit it does not read.   *)
Begin ==
  /\ verdict = "none" /\ call = NoCall
  /\ IF Budget(Len(partial)) <= 0 THEN Ends("oversized")
       ELSE call' = 0 /\ UNCHANGED <<taken, partial, frames, verdict, resumed>>
  /\ UNCHANGED <<wire, peer>>

(* One poll of read_until on the limited reader: it takes what is there,   *)
(* up to the delimiter and within the budget.                              *)
Available == SubSeq(wire, taken + 1, Len(wire))
Delimiter(s) == IF Contains(s, "newline") THEN SelectInSeq(s, LAMBDA b : b = "newline") ELSE Len(s)
Bite == LET room == SubSeq(Available, 1, Min({Len(Available), Budget(Len(partial))}))
        IN  SubSeq(room, 1, Delimiter(room))

(* String::from_utf8 on the bytes of the whole frame, which are taken out  *)
(* of the buffer whatever it says.                                         *)
Complete(frame) ==
  /\ partial' = <<>> /\ call' = NoCall /\ resumed' = FALSE
  /\ IF Contains(frame, "binary") THEN verdict' = "not utf-8" /\ UNCHANGED frames
                                  ELSE frames' = Append(frames, frame) /\ UNCHANGED verdict

(* The call stops without a delimiter: the budget is used up, or the peer  *)
(* has gone.  Nothing read by this call means the end between frames.      *)
Stopped(n) ==
  IF n = 0 THEN "closed" ELSE IF Len(partial') > Limit THEN "oversized" ELSE "truncated"

Poll ==
  /\ call # NoCall /\ peer # "failed"
  /\ Bite # <<>> \/ peer = "closed" \/ Budget(Len(partial)) = 0
  /\ taken' = taken + Len(Bite)
  /\ LET whole == partial \o Bite
         n    == call + Len(Bite)
     IN  IF Contains(Bite, "newline") THEN Complete(whole)
         ELSE /\ partial' = whole /\ UNCHANGED <<frames, resumed>>
              /\ IF Budget(Len(whole)) = 0 \/ (peer = "closed" /\ taken' = Len(wire))
                   THEN verdict' = Stopped(n) /\ call' = NoCall
                   ELSE call' = n /\ UNCHANGED verdict
  /\ UNCHANGED <<wire, peer>>

PollFails ==
  /\ call # NoCall /\ peer = "failed"
  /\ Ends("io")
  /\ UNCHANGED <<wire, peer>>

(* Another branch of the select! wins: the future is dropped.              *)
Keeps == UNCHANGED partial

Drop ==
  /\ call # NoCall /\ call' = NoCall
  /\ Keeps /\ resumed' = (partial # <<>>)
  /\ UNCHANGED <<wire, peer, taken, frames, verdict>>

(* read_frame of the client in its own words: an error of the socket is    *)
(* the peer hanging up, unless half a frame is held.                       *)
Reported ==
  IF verdict = "io" THEN (IF partial # <<>> THEN "truncated" ELSE "closed") ELSE verdict

ReaderNext ==
  \/ \E b \in Byte : PeerWrites(b)
  \/ \E how \in {"closed", "failed"} : PeerEnds(how)
  \/ Begin \/ Poll \/ PollFails \/ Drop

ReaderSpec == ReaderInit /\ [][ReaderNext]_readerVars

(* The session calls next_frame again after every broadcast, and select!   *)
(* polls its branches in random order: the reading branch is not passed    *)
(* over for ever.                                                          *)
FairReaderSpec == ReaderSpec /\ WF_readerVars(Begin) /\ SF_readerVars(Poll) /\ SF_readerVars(PollFails)

-----------------------------------------------------------------------------
(***************************************************************************)
(* Properties                                                              *)
(***************************************************************************)

IsFrame(s) == s # <<>> /\ Last(s) = "newline" /\ ~Contains(Front(s), "newline")

(* What has been returned and what is held make up what has been read,     *)
(* when cut in the right places.                                           *)
CutUp ==
  \E cut \in [0 .. Len(frames) -> 0 .. taken] :
    /\ cut[0] = 0
    /\ \A i \in 1 .. Len(frames) :
         cut[i - 1] < cut[i] /\ frames[i] = SubSeq(wire, cut[i - 1] + 1, cut[i])
    /\ partial = SubSeq(wire, cut[Len(frames)] + 1, taken)

(* No byte is lost, repeated or moved to another frame, however often a    *)
(* call is dropped.  Each frame is one line of text; neither it nor what   *)
(* is held is longer than the limit and one byte (the promise of           *)
(* FrameReader that a half-read frame survives the cancellation).          *)
BytesKept ==
  /\ verdict # "not utf-8" => CutUp
  /\ \A i \in 1 .. Len(frames) :
       IsFrame(frames[i]) /\ ~Contains(frames[i], "binary") /\ Len(frames[i]) <= Limit + 1
  /\ Len(partial) <= Limit + 1 /\ ~Contains(partial, "newline")

(* What a session or a client is told of the end is what happened: hung up *)
(* between frames, in the middle of one, or too long a line (Ok(None),     *)
(* FrameError and read_frame's reading of them).  Excepted is an end that  *)
(* meets a frame begun by a call that was dropped: the call that finds the *)
(* end has read nothing and takes it for an end between frames.            *)
VerdictIsTrue ==
  /\ Reported = "closed" /\ ~resumed => partial = <<>> /\ peer # "open"
  /\ Reported = "truncated" => partial # <<>> /\ peer # "open"
  /\ Reported = "oversized" => Len(partial) > Limit

FrameInv == ReaderTypeOK /\ BytesKept /\ VerdictIsTrue

(* Every line of text within the limit is returned in the end, unless the  *)
(* connection fails or the peer has broken the protocol before it: no      *)
(* number of dropped calls starves or loses it.                            *)
LineAt(b) ==
  \E a \in 1 .. b : /\ IsFrame(SubSeq(wire, a, b)) /\ ~Contains(SubSeq(wire, a, b), "binary")
                    /\ a = 1 \/ wire[a - 1] = "newline"
                    /\ b - a <= Limit

Lines ==
  Cardinality({b \in DOMAIN wire : wire[b] = "newline" /\
                 \A c \in 1 .. b : wire[c] = "newline" => LineAt(c)})

EveryFrameArrives ==
  \A n \in 1 .. MaxBytes : Lines >= n ~> Len(frames) >= n \/ peer = "failed"

=============================================================================
