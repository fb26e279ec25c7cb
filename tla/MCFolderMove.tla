---------------------------- MODULE MCFolderMove ----------------------------
(***************************************************************************)
(* Two folders, two names.  One folder holds a file and a placeholder, or  *)
(* two placeholders, or two files; or one holds a placeholder and the      *)
(* other a file.                                                           *)
(***************************************************************************)
EXTENDS FolderMove

CONSTANTS a, b, one, two

MCFolder == {a, b}
MCName   == {one, two}
Of(f, N) == {f} \X N
MCLayouts ==
  {[files |-> Of(a, {one}), stubs |-> Of(a, {two})],
   [files |-> {}, stubs |-> Of(a, {one, two})],
   [files |-> Of(a, {one, two}), stubs |-> {}],
   [files |-> Of(b, {one}), stubs |-> Of(a, {two})]}

=============================================================================
