----------------------------- MODULE CliClaims -----------------------------
(* What the help text says of the questions. *)
EXTENDS Cli

\* "If --iso or --device not provided, you will be prompted interactively. A
\* confirmation prompt will require you to type 'YES' before writing."
\* (cli.c:38-39): whoever left one of them out has typed YES when a disk is
\* written to.  Not so with --device and --dangerous and no --iso: the image is
\* asked for, but --device has cleared g_interactive, so YES is not
\* (cli.c:276-279, 399).
YesIfPrompted ==
  (\E d \in Disks : content[d] # "original") /\ ~BothGiven => yes
=============================================================================
