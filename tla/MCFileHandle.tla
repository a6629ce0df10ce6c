---------------------------- MODULE MCFileHandle ----------------------------
(***************************************************************************)
(* FileHandle for TLC: two file names, which may be names of one file; two *)
(* inodes, so that a file can be replaced and an inode be used again; and  *)
(* three streams, so that streams that are never closed can use them up.   *)
(* Names, inodes and streams are interchangeable.                          *)
(***************************************************************************)
EXTENDS FileHandle, TLC

CONSTANTS f, g, i1, i2, s1, s2, s3

MCFile == {f, g}
MCInode == {i1, i2}
MCStream == {s1, s2, s3}

Symmetry ==
  Permutations(MCFile) \cup Permutations(MCInode) \cup Permutations(MCStream)
=============================================================================
