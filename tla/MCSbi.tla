------------------------------- MODULE MCSbi -------------------------------
(* SbiTlb for TLC: three harts.                                            *)
EXTENDS SbiTlb, TLC

CONSTANTS h1, h2, h3, a1, a2

Vma(a, n) == [kind |-> "SFENCE_VMA", asid |-> 0, start |-> a, size |-> n]
VmaAsid(a, n) == [kind |-> "SFENCE_VMA_ASID", asid |-> 1, start |-> a, size |-> n]
FenceI == [kind |-> "FENCE_I", asid |-> 0, start |-> 0, size |-> 0]

(* Ranges of which one contains the other, ranges that overlap otherwise,  *)
(* one long enough for a full flush, one that asks for it with zeros, and  *)
(* a fence that is never merged.                                           *)
MCFence == {Vma(0, 0), Vma(0, 2), Vma(1, 2), VmaAsid(1, 5), VmaAsid(2, 2), FenceI}
MCFences == {<<h1, {h1, h2}, Vma(0, 2)>>, <<h2, {h1, h2}, FenceI>>, <<h3, {h1, h2}, Vma(1, 2)>>,
             <<h3, {h2}, Vma(0, 0)>>, <<h1, {h3}, VmaAsid(1, 5)>>, <<h2, {h3}, VmaAsid(2, 2)>>}
MCNotices == {<<h1, {h1, h3}>>}
MCStarts == {<<h1, h3, a1>>, <<h2, h3, a2>>}
MCSuspends == {<<h2, "retentive", a2>>, <<h2, "nonretentive", a2>>}
=============================================================================
