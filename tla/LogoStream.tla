----------------------------- MODULE LogoStream -----------------------------
(***************************************************************************)
(* The streamed logo: base64 text is decoded while it is sent, in chunks   *)
(* of whatever size the connection has room for.                           *)
(*                                                                         *)
(* A character of the text is a digit, padding or something else (line     *)
(* ends, blanks and what is no base64 at all are skipped alike).  A byte   *)
(* of the image is named by the positions of the two digits it is made of. *)
(***************************************************************************)
EXTENDS Integers, FiniteSets, FiniteSetsExt, Functions, Sequences

\* Base64LogoResponseState for a text.
Start(text) ==
    [text |-> text, sourceOffset |-> 0, pending |-> <<>>,
     inputFinished |-> FALSE, complete |-> FALSE]

\* The positions of the characters that count.
Place(text) == {i \in 1..Len(text) : text[i] /= "other"}

\* The first of them behind a position; the one past the end if there is none.
NextPlace(text, i) == Min({j \in Place(text) : j > i} \cup {Len(text) + 1})

\* fillDecodedLogoBytes.
Fill(s) ==
    LET a == NextPlace(s.text, s.sourceOffset)
        b == NextPlace(s.text, a)
        c == NextPlace(s.text, b)
        d == NextPlace(s.text, c)
        short == d > Len(s.text)
        Padded(i) == s.text[i] = "="
        unusable == short \/ Padded(a) \/ Padded(b) \/ (Padded(c) /\ ~Padded(d))
        offset == IF short THEN Len(s.text) ELSE d
    IN  IF unusable
        THEN [s EXCEPT !.sourceOffset = offset, !.inputFinished = TRUE]
        ELSE [s EXCEPT
                !.sourceOffset = offset,
                !.pending = IF Padded(c) THEN << <<a, b>> >>
                            ELSE IF Padded(d) THEN << <<a, b>>, <<b, c>> >>
                            ELSE << <<a, b>>, <<b, c>>, <<c, d>> >>,
                !.inputFinished = offset >= Len(s.text) \/ Padded(c) \/ Padded(d)]

\* The next byte goes into the chunk; the loop breaks when there is none.
NextByte(chunk) ==
    LET s == IF chunk.s.pending = <<>> THEN Fill(chunk.s) ELSE chunk.s
    IN  IF chunk.break THEN chunk
        ELSE IF s.pending = <<>> THEN [chunk EXCEPT !.s = s, !.break = TRUE]
        ELSE [s |-> [s EXCEPT !.pending = Tail(@)],
              bytes |-> Append(chunk.bytes, Head(s.pending)), break |-> FALSE]

\* The loop, for a chunk of n bytes.
Written(s, n) ==
    LET After[i \in 0..n] ==
          IF i = 0 THEN [s |-> s, bytes |-> <<>>, break |-> FALSE]
          ELSE NextByte(After[i - 1])
    IN  After[n]

\* A variation of Render that is complete with the text, whatever is pending.
RenderHasty(s, maxLen) ==
    LET chunk == Written(s, maxLen)
    IN  [s |-> [chunk.s EXCEPT !.complete = @ \/ chunk.s.inputFinished],
         bytes |-> chunk.bytes]

\* renderDecodedLogoChunk: the new state and the bytes of the chunk.
Render(s, maxLen) ==
    LET chunk == Written(s, maxLen)
        t == chunk.s
    IN  [s |-> [t EXCEPT !.complete = t.inputFinished /\ t.pending = <<>>],
         bytes |-> chunk.bytes]

-----------------------------------------------------------------------------
(* What a text stands for. *)

\* Nothing but padding follows padding.
Base64(text) == \A i, j \in Place(text) : i < j /\ text[i] = "=" => text[j] = "="

\* How many of the characters that count there are up to a position.
Rank(text, i) == Cardinality({j \in Place(text) : j <= i})

\* The neighbouring digits of every complete quartet.
Image(text) ==
    LET total == Cardinality(Place(text))
        whole == total - (total % 4)
    IN  {byte \in Place(text) \X Place(text) :
            LET i == byte[1]
                j == byte[2]
            IN  /\ text[i] = "digit" /\ text[j] = "digit"
                /\ Rank(text, j) = Rank(text, i) + 1
                /\ Rank(text, i) % 4 /= 0 /\ Rank(text, i) < whole}

\* Bytes of the image, in its order, none of them twice.
PartOf(text, bytes) ==
    /\ Range(bytes) \subseteq Image(text)
    /\ \A k, l \in DOMAIN bytes : k < l => bytes[k][1] < bytes[l][1]

\* The image and nothing else.
Depicts(text, bytes) == PartOf(text, bytes) /\ Image(text) \subseteq Range(bytes)
=============================================================================
