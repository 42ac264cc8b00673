-------------------------------- MODULE Cuts --------------------------------
(***************************************************************************)
(* Two readers of one stream: first one that gets all it asks for at once, *)
(* then one that gets it in pieces.                                        *)
(***************************************************************************)
EXTENDS Framing

VARIABLES wholeTaken, whole     \* taken and r of the first reader

cutsVars == <<framingVars, wholeTaken, whole>>

CutsInit == Init /\ wholeTaken = 0 /\ whole = Start(script)

AllAtOnce ==
    LET m == Brings(whole, wholeTaken, Len(script.stream))
    IN  /\ m > 0
        /\ whole' = Fed(whole, SubSeq(script.stream, wholeTaken + 1, wholeTaken + m))
        /\ wholeTaken' = wholeTaken + m
        /\ UNCHANGED framingVars

\* The second reader begins when the first has all it can get.
InPieces == HasAll(whole, wholeTaken) /\ UNCHANGED <<wholeTaken, whole>>

CutsNext ==
    \/ AllAtOnce
    \/ InPieces /\ PeerCloses
    \/ \E n \in Sizes : InPieces /\ Recv(n)

CutsSpec == CutsInit /\ [][CutsNext]_cutsVars

-----------------------------------------------------------------------------
\* How the network cuts the stream makes no difference to what is understood, to
\* the end it comes to, or to what relay and fallback get in the end.
CutsDoNotMatter ==
    HasAll(whole, wholeTaken) /\ AllRead =>
        /\ r.phase = whole.phase
        /\ r.got = whole.got
        /\ r.buf = whole.buf
        /\ r.phase \in {"served", "fallback"} =>
               r.handed \o From(script.stream, taken + 1)
                   = whole.handed \o From(script.stream, wholeTaken + 1)
=============================================================================
