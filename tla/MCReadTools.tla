----------------------------- MODULE MCReadTools -----------------------------
(* Instances of ReadTools: projects, versions and entities share their ids, *)
(* so that a swap of two of them shows; searches are lists of tokens.       *)
EXTENDS ReadTools

MCIds == {<<"1">>, <<"2">>}
MCLanguages == {<<"ru">>, <<"en">>}
MCDefaultLanguage == <<"ru">>

MCPlainSearches == {<<"sales">>, <<"net", "sales">>}
=============================================================================
