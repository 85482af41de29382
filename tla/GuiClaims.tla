----------------------------- MODULE GuiClaims -----------------------------
(* What the window asks the user. *)
EXTENDS Gui

\* "This will ERASE %1. Continue?" (MainWindow.cpp:296): the name in the
\* question is the name of what is written.
ConfirmedIsWritten == \A w \in Workers : written[w] # {} => target[w] = asked[w]
=============================================================================
