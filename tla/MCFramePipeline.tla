--------------------------- MODULE MCFramePipeline ---------------------------
(***************************************************************************)
(* Instances of FramePipeline for TLC.                                     *)
(***************************************************************************)
EXTENDS FramePipeline

AllOps == OpNames

\* Line feeds painted one by one.
ScrollOps == {"write", "linefeed"}

ResizeOps == {"write", "resize"}

\* Views that TLC identifies states by.  Line ids are only ever compared with
\* each other, so the screen is seen with the ids replaced by where an
\* observed line now is: states equal up to renaming have the same steps.
CellsOf(lines) == [i \in DOMAIN lines |-> lines[i].cell]
Places(lines, id) == {i \in DOMAIN lines : lines[i].id = id}
ScreenView ==
    <<height, CellsOf(sb), CellsOf(live), alternate, pos, cursor,
      aged, observed_alternate,
      IF observed_lines = RowIds THEN "current"
      ELSE [r \in DOMAIN observed_lines |-> Places(live, observed_lines[r])]>>

\* What is displayed, less what no step and no property reads: a row that
\* is invalid or was moved is only ever overwritten, and after a blurring shift
\* the bitmap and the window, or after a resize that found a frame waiting
\* the window, are next read when a full repaint replaced them.
DisplayView ==
    IF blurred THEN <<DOMAIN framebuffer>>
    ELSE IF outdated THEN <<framebuffer>>
    ELSE <<framebuffer, [r \in Rows \ (invalid \cup moved) |-> window[r]]>>

\* Screens of three rows, where a part of the rows can scroll, keep their height
\* and have no alternate screen, and a chunk has one control; with one or two
\* rows there are all operations, two to a chunk.
WindowBounds ==
    /\ (height = 3) = (height' = 3)
    /\ height = 3 => ~alternate' /\ work' <= 1

WindowView == <<ScreenView, pend, pack, ctrl, DisplayView, framebuffer_valid,
                invalid, hist>>

=============================================================================
