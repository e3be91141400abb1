------------------------------ MODULE MCParser ------------------------------
(* Instances of StreamParser for TLC.                                      *)
EXTENDS StreamParser

SomeStanzas ==
  {<<"features", "empty", "endfeatures">>,
   <<"message", "text", "reference", "body", "cdata", "endbody", "text", "endmessage">>,
   <<"message", "cdata", "empty", "body", "number", "endbody", "endmessage">>}

\* To see HeardAfterCleanup violated: this stanza alone, the other quotes in the
\* declaration of XML, and two items.
OneStanza == {<<"message", "text", "endmessage">>}

DoubleQuote == "\""
SingleQuote == "'"

SmallReads == 1 .. 4

=============================================================================
