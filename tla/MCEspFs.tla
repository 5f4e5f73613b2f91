------------------------------- MODULE MCEspFs -------------------------------
(***************************************************************************)
(* An instance of EspFs: names that fill their last ALIGN cells and names  *)
(* that do not, two lines of the input with the same name, a content that  *)
(* compresses, one that grows, an empty one, and addresses of which one is *)
(* not aligned.                                                            *)
(***************************************************************************)
EXTENDS EspFs

MCLines == {<<".", "/", "a">>, <<"a">>, <<"b", ".", "c">>}
MCUrls == {<<"/", "/", "a">>, <<"b", ".", "c">>, <<"/">>}
MCExtensions == {<<"c">>}

Text == <<"t1", "t2", "t3", "t4", "t5">>
Short == <<"s1">>
MCContents == {Text, Short, <<>>}
MCCompressGzip == [raw \in MCContents |->
    CASE raw = Text -> <<"z1", "z2", "z3", "z4">>
      [] raw = Short -> <<"z1", "z2">>
      [] raw = <<>> -> <<"z1">>]
=============================================================================
