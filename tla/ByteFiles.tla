----------------------------- MODULE ByteFiles -----------------------------
(***************************************************************************)
(* What the file system promises about the contents of files: a read gives *)
(* what was last written there, a write changes its own range of one file  *)
(* and nothing else, and neither a lost inode-table entry nor a restart is *)
(* visible.                                                                *)
(***************************************************************************)
EXTENDS Integers, Sequences

CONSTANTS FileIds, Longest, Width

VARIABLES content,
          answer   \* of a read that has just ended, <<>> otherwise

vars == <<content, answer>>

Init == content \in [FileIds -> Seq(Int)] /\ answer = <<>>

Overlay(s, off, src) ==
  [i \in 1 .. (IF off + Len(src) > Len(s) THEN off + Len(src) ELSE Len(s)) |->
     IF i > off /\ i <= off + Len(src) THEN src[i - off] ELSE s[i]]

Write(f, off, src) ==
  /\ content' = [content EXCEPT ![f] =
       IF off <= Len(@) /\ off + Len(src) <= Longest THEN Overlay(@, off, src) ELSE @]
  /\ answer' = <<>>

Read(f, off, n) ==
  /\ LET s == content[f]
         end == IF off + n < Len(s) THEN off + n ELSE Len(s)
     IN answer' = IF off > Len(s) \/ off + n >= Width THEN <<f, <<-1>>>>
                  ELSE <<f, SubSeq(s, off + 1, end)>>
  /\ UNCHANGED content

Empty(f) == content' = [content EXCEPT ![f] = <<>>] /\ answer' = <<>>

Other == UNCHANGED content /\ answer' = <<>>
=============================================================================
