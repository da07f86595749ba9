----------------------------- MODULE ByteStreams ----------------------------
(***************************************************************************)
(* What the stream modules say of any compression library: a compressed    *)
(* byte completes one or more units of its stream, and a library may hold  *)
(* back units it has taken.  The libraries themselves are external.        *)
(***************************************************************************)
EXTENDS Naturals, Sequences, FiniteSets, SequencesExt

FirstOf(s, n) == SubSeq(s, 1, n)
After(s, n)   == SubSeq(s, n + 1, Len(s))

(* Where the last byte of the first n units may begin.  The ending of a     *)
(* stream comes in a byte of its own: the trailers of Zlib and LZ4, and the *)
(* byte Zstd reports as not consumed.                                       *)
Cuts(units, ending, n) == {k \in 0..n - 1 : units[n] = ending => k = n - 1}

(* Every way to divide the first n units of a sequence into bytes.          *)
Divisions(units, ending) ==
  LET ways[n \in 0..Len(units)] ==
        IF n = 0 THEN {<<>>}
        ELSE UNION {{Append(bytes, SubSeq(units, k + 1, n)) : bytes \in ways[k]}
                      : k \in Cuts(units, ending, n)}
  IN  ways

(* What a call may put out into so much space, and what it holds back.      *)
Emissions(units, space, ending) ==
  UNION {{[bytes |-> bytes, rest |-> After(units, n)]
            : bytes \in {b \in Divisions(units, ending)[n] : Len(b) <= space}}
           : n \in 0..Len(units)}
=============================================================================
