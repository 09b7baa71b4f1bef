---------------------------- MODULE MCFileSystem ----------------------------
(* Instances of FileSystem: two processes, the root and two more inodes.   *)
EXTENDS FileSystem, TLC

CONSTANTS a, b

Symmetry == Permutations(Thread)

(* A relative and an absolute name that meet in /a, of one and two         *)
(* elements: one call's directory is the file or directory another one     *)
(* creates, links or removes.                                              *)
MeetingPaths == {<<a>>, <<Slash, a, b>>}

(* The parent of the current directory is used too.                        *)
ParentPaths == {<<a>>, <<DotDot, a>>}
=============================================================================
