------------------------------ MODULE Delivery ------------------------------
(***************************************************************************)
(* What reaches Telegram of an answer: the pieces a long text is cut into, *)
(* the words and pictures of a reply, and the chats a send goes to         *)
(* (modules/telegram/backend/telegram.py and module.py).                   *)
(*                                                                         *)
(* A text is its paragraphs, a paragraph the lengths of its lines, as      *)
(* to_html leaves it: no empty line, no blank end.                         *)
(***************************************************************************)
EXTENDS Integers, SequencesExt

CONSTANTS Sums,     \* the questions asked
          LIMIT,    \* characters a message holds
          CAPTION   \* characters a caption holds
VARIABLE sum

Total(ns) == FoldLeft(+, 0, ns)
Size(para) == Total(para) + (IF para = <<>> THEN 0 ELSE Len(para) - 1)
First(para, k) == SubSeq(para, 1, k)
After(para, k) == SubSeq(para, k + 1, Len(para))

----------------------------------------------------------------------------
(* _chunks.  A chunk is its length and the words (characters of lines) in it. *)

Chunk(para) == [len |-> Size(para), words |-> Total(para)]

Behind(para, k) == [head |-> First(para, k), tail |-> After(para, k)]
Inside(para, k, n) ==
    IF n <= 0 THEN Behind(para, k)
    ELSE [head |-> Append(First(para, k), n), tail |-> <<para[k + 1] - n>> \o After(para, k + 1)]

\* Where a wall of text is cut: behind the last line that ends in the second half
\* of the limit, or else at the limit, in the middle of a line.
CutAt(para) ==
    LET ends == {k \in 1..(Len(para) - 1) : Size(First(para, k)) \in (LIMIT \div 2)..(LIMIT - 1)}
        whole == {k \in 0..Len(para) : Size(First(para, k)) <= LIMIT}
        Hard(k) == Inside(para, k, LIMIT - Size(First(para, k)) - (IF k = 0 THEN 0 ELSE 1))
    IN  IF ends # {} THEN Behind(para, CHOOSE e \in ends : \A j \in ends : j <= e)
        ELSE Hard(CHOOSE k \in whole : \A j \in whole : j <= k)

\* The pieces of a paragraph: those cut off, and the rest, which fits.
Wall[para \in Seq(Nat)] ==
    LET Cut(at) == [Wall[at.tail] EXCEPT !.cut = <<Chunk(at.head)>> \o @]
    IN  IF Size(para) <= LIMIT THEN [cut |-> <<>>, rest |-> para] ELSE Cut(CutAt(para))

\* Mutant of Full: the blank line between two paragraphs is not counted.
FullWithoutBreak(cur, rest) == cur.len + rest.len > LIMIT

Full(cur, rest) == cur.len + rest.len + 2 > LIMIT

Flushed(acc) == IF acc.cur.len > 0 THEN Append(acc.out, acc.cur) ELSE acc.out

\* A piece more, on the chunk being filled or on a new one.
Put(acc, rest) ==
    IF Full(acc.cur, rest) THEN [out |-> Flushed(acc), cur |-> rest]
    ELSE [acc EXCEPT !.cur = IF @.len = 0 THEN rest
                             ELSE [len |-> @.len + rest.len + 2, words |-> @.words + rest.words]]

\* A paragraph more: what is cut off it goes out at once.
Poured(acc, wall) ==
    Put(IF wall.cut = <<>> THEN acc ELSE [out |-> Flushed(acc) \o wall.cut, cur |-> Chunk(<<>>)],
        Chunk(wall.rest))
Filled(acc, para) == Poured(acc, Wall[para])

Chunks(text) ==
    LET acc == FoldLeft(Filled, [out |-> <<>>, cur |-> Chunk(<<>>)], text)
    IN  Append(acc.out, acc.cur)          \* "(empty)" stands for an empty one

----------------------------------------------------------------------------
(* _answer's reply: the words ride with the first picture when they fit. *)

Posts(words, images) ==
    LET ride == IF words <= CAPTION THEN words ELSE 0
        \* the words the i-th picture carries
        On(i) == IF i = 1 THEN ride ELSE 0
        shown == SelectSeq([i \in DOMAIN images |-> i], LAMBDA i : images[i] = "drawn")
        photos == [k \in DOMAIN shown |-> [photo |-> shown[k], words |-> On(shown[k])]]
        left == IF ride > 0 /\ images # <<>> /\ images[1] = "drawn" THEN 0 ELSE words
    IN  photos \o (IF left > 0 THEN <<[photo |-> 0, words |-> left]>> ELSE <<>>)

----------------------------------------------------------------------------
(* _chats_for and _send. *)

Real(chat) == chat # "trader"      \* what a model makes up is no chat

ChatsFor(given, home) ==
    LET real == {c \in given : Real(c)} IN IF real # {} THEN real ELSE home

\* Each chat on its own; an error only when nobody was reached.
Send(given, home, down) ==
    LET chats == ChatsFor(given, home)
    IN  [sent |-> chats \ down, failed |-> chats \cap down, error |-> chats \subseteq down]

----------------------------------------------------------------------------
Init == sum \in Sums
Next == UNCHANGED sum
Spec == Init /\ [][Next]_sum

----------------------------------------------------------------------------
(* Properties. *)

\* Telegram takes every chunk of an answer of any shape, and together they are
\* the answer: "losing the end of the answer is worse" (telegram.py:98-122).
TextArrives == sum.kind = "text" =>
    \A chunks \in {Chunks(sum.text)} :
        /\ \A i \in DOMAIN chunks : chunks[i].len \in 1..LIMIT
        /\ FoldLeft(LAMBDA n, c : n + c.words, 0, chunks)
             = FoldLeft(LAMBDA n, p : n + Total(p), 0, sum.text)

\* The words of a reply go out once and each picture that could be drawn once, in
\* order, also when the picture the words would ride on is missing
\* (module.py:512-531); only a reply that is nothing but missing pictures is silent.
ReplyArrives == sum.kind = "reply" =>
    \A posts \in {Posts(sum.words, sum.images)} :
        /\ FoldLeft(LAMBDA n, p : n + p.words, 0, posts) = sum.words
        /\ \A i \in DOMAIN sum.images : sum.images[i] = "drawn"
               <=> \E j \in DOMAIN posts : posts[j].photo = i
        /\ \A i, j \in DOMAIN posts : i < j => posts[j].photo = 0 \/ posts[i].photo < posts[j].photo
        /\ \A j \in DOMAIN posts : posts[j].photo > 0 => posts[j].words <= CAPTION

\* A bad chat does not swallow the others, and a chat somebody asked for is never
\* answered for by another one (module.py:160-174 and 211-247).
SendIsReported == sum.kind = "send" =>
    \A said \in {Send(sum.given, sum.home, sum.down)} :
        /\ said.error <=> said.sent = {}
        /\ \A c \in sum.given : Real(c) => c \in said.sent \cup said.failed
        /\ (\E c \in sum.given : Real(c)) => said.sent \subseteq sum.given
=============================================================================
