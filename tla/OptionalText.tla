----------------------------- MODULE OptionalText -----------------------------
(***************************************************************************)
(* Option<String> in memory, and the string of a file, where no text and   *)
(* the empty text are one.                                                 *)
(***************************************************************************)

NoText == "None"
EmptyText == ""

\* What a file says; NoText stands for none, and is none of them. (That EmptyText is a
\* string is said because no prover knows.)
Text == (STRING \cup {EmptyText}) \ {NoText}

MaybeText == Text \cup {NoText}

\* unwrap_or_default
TextInFile(text) == IF text = NoText THEN EmptyText ELSE text

\* is_empty: None
TextInMemory(text) == IF text = EmptyText THEN NoText ELSE text

=============================================================================
