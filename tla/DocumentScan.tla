------------------------------ MODULE DocumentScan ------------------------------
(***************************************************************************)
(* What an uploaded document is asked before it is kept: what its first    *)
(* bytes say it is (content-inspection.ts), and clamd, over a socket       *)
(* (clamav-malware-scan.adapter.ts).                                       *)
(*                                                                         *)
(* A file is the sequence of its parts, a frame holds ChunkSize of them,   *)
(* and clamd finds what it finds in a part.  Its reply may come in pieces, *)
(* and stop between any two words.  No signature's name ends in OK.        *)
(***************************************************************************)
EXTENDS Integers, Sequences, SequencesExt

CONSTANTS Files,       \* the files that are scanned: sequences of "fine" and "bad"
          ChunkSize,   \* of instreamFrames
          StreamMax,   \* clamd's own limit
          None

VARIABLE scan    \* file; at: of the socket; wire: frames on their way; held: parts clamd has;
                 \* reply: words on their way; chunks: words that came; verdict; broken: history

-----------------------------------------------------------------------------
(* The frames of a file: its length in front of each, and an empty one.    *)
InstreamFrames(file) ==
    [i \in 1 .. (Len(file) + ChunkSize - 1) \div ChunkSize |->
        SubSeq(file, (i - 1) * ChunkSize + 1,
               IF i * ChunkSize < Len(file) THEN i * ChunkSize ELSE Len(file))] \o <<<<>>>>

ParseClamdReply(words) ==
    CASE words /= <<>> /\ Last(words) = "OK" /\ ~Contains(words, "FOUND") -> "CLEAN"
      [] words /= <<>> /\ Last(words) = "FOUND" -> "INFECTED"
      [] OTHER -> "UNSCANNED"

Init ==
    \E file \in Files :
        scan = [file |-> file, at |-> "connecting", wire |-> <<>>, held |-> <<>>,
                reply |-> <<>>, chunks |-> <<>>, verdict |-> None, broken |-> FALSE]

(* The first to settle destroys the socket and is heard.                   *)
Settled(s, verdict) ==
    IF s.verdict /= None THEN s
    ELSE [s EXCEPT !.verdict = verdict, !.at = "destroyed"]

Connect ==
    /\ scan.at = "connecting"
    /\ scan' = [scan EXCEPT !.at = "open", !.wire = InstreamFrames(scan.file)]

(* clamd takes a frame; the empty one is the end, and it replies.          *)
Bad(parts) == Contains(parts, "bad")
Takes ==
    /\ scan.at = "open" /\ scan.wire /= <<>>
    /\ LET frame == Head(scan.wire)
           held == scan.held \o frame
       IN  scan' = [scan EXCEPT
                      !.wire = IF Len(held) > StreamMax THEN <<>> ELSE Tail(@),
                      !.held = held,
                      !.reply = CASE Len(held) > StreamMax -> <<"size limit exceeded.", "ERROR">>
                                  [] Len(held) <= StreamMax /\ frame = <<>> ->
                                        IF Bad(held) THEN <<"stream:", "Name", "FOUND">>
                                        ELSE <<"stream:", "OK">>
                                  [] OTHER -> @]

Data ==
    /\ scan.at = "open" /\ scan.reply /= <<>>
    /\ scan' = [scan EXCEPT !.chunks = Append(@, Head(scan.reply)), !.reply = Tail(@)]

(* clamd has replied, or is gone; also the close of a socket destroyed.    *)
Close ==
    /\ scan.at \in {"open", "destroyed"}
    /\ scan' = [Settled(scan, ParseClamdReply(scan.chunks)) EXCEPT !.at = "closed"]

(* Refused, reset, or nothing heard for CLAMAV_TIMEOUT_MS.                 *)
Breaks ==
    /\ scan.at \in {"connecting", "open"}
    /\ scan' = [Settled(scan, "UNSCANNED") EXCEPT !.broken = TRUE]

Next == Connect \/ Takes \/ Data \/ Close \/ Breaks

Spec == Init /\ [][Next]_scan

-----------------------------------------------------------------------------
(* The first bytes of a file.                                              *)
Signatures ==
    [pdf |-> <<37, 80, 68, 70, 45>>, png |-> <<137, 80, 78, 71, 13, 10, 26, 10>>,
     jpeg |-> <<255, 216>>]
ExecutableMarkers ==
    {<<77, 90>>, <<127, 69, 76, 70>>, <<207, 250, 237, 254>>, <<206, 250, 237, 254>>,
     <<202, 254, 186, 190>>, <<80, 75, 3, 4>>, <<35, 33>>}

StartsWith(bytes, pattern) == IsPrefix(pattern, bytes)
FormatsOf(bytes) == {t \in DOMAIN Signatures : StartsWith(bytes, Signatures[t])}

InspectContent(bytes, max) ==
    IF bytes = <<>> THEN "EMPTY"
    ELSE IF Len(bytes) > max THEN "TOO_LARGE"
    ELSE IF \E m \in ExecutableMarkers : StartsWith(bytes, m) THEN "EXECUTABLE_CONTENT"
    ELSE IF FormatsOf(bytes) = {} THEN "UNRECOGNISED_FORMAT"
    ELSE CHOOSE t \in DOMAIN Signatures : t \in FormatsOf(bytes)

-----------------------------------------------------------------------------
(* "EVERY FAILURE PATH IN THIS FILE RETURNS UNSCANNED.  NOT ONE RETURNS    *)
(* CLEAN": however the connection goes, the verdict is what is in the      *)
(* whole file, or none; and a connection that broke gave none              *)
(* (clamav-malware-scan.adapter.ts).                                       *)
ScannerTellsTheTruth ==
    /\ scan.verdict \in {None, "UNSCANNED", IF Bad(scan.file) THEN "INFECTED" ELSE "CLEAN"}
    /\ scan.broken => scan.verdict = "UNSCANNED"
    /\ scan.at = "closed" => scan.verdict /= None

(* The order of the lists decides nothing: whatever follows, a file has    *)
(* one reading; what has begun as a program is none however it goes on     *)
(* (content-inspection.ts).                                                *)
Patterns == ExecutableMarkers \union {Signatures[t] : t \in DOMAIN Signatures}
BytesHaveOneReading(bytes, rest, max) ==
    /\ \A p, q \in Patterns : StartsWith(bytes, p) /\ StartsWith(bytes, q) => p = q
    /\ LET before == InspectContent(bytes, max)
           after == InspectContent(bytes \o rest, max)
       IN  before \notin {"EMPTY", "UNRECOGNISED_FORMAT"} /\ after /= "TOO_LARGE" =>
              after = before
=============================================================================
