------------------------------ MODULE ByteString ------------------------------
(***************************************************************************)
(* What a buffer is to its users: a string of bytes that is extended or    *)
(* shortened at either end.  Buffer.tla implements it.                     *)
(***************************************************************************)
EXTENDS Naturals, Sequences

CONSTANT Strings   \* the strings that are appended and prepended

VARIABLE content

Init == content = <<>>

AddLast(s) == content' = content \o s
AddFirst(s) == content' = s \o content
DropFirst(n) == content' = SubSeq(content, n + 1, Len(content))
DropLast(n) == content' = SubSeq(content, 1, Len(content) - n)

Next ==
  \/ \E s \in Strings : AddLast(s) \/ AddFirst(s)
  \/ \E n \in 0..Len(content) : DropFirst(n) \/ DropLast(n)

Spec == Init /\ [][Next]_content
=============================================================================
