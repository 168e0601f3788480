----------------------------- MODULE MCFileStore -----------------------------
(* An instance of FileStore: cache_dir / "rmd" / "1", with the keys "rmd:1:a", *)
(* "rmd:1:b" and "rmd:1", which is a prefix as well.                           *)
EXTENDS FileStore, TLC

CONSTANTS t1, t2, cacheDir, rmd, one, entryA, entryB, entryOne, none

MCThreads == {t1, t2}
MCKeys == {entryA, entryOne}
MCAllKeys == {entryA, entryB, entryOne}
MCDirs == {cacheDir, rmd, one}
MCUp == (cacheDir :> cacheDir) @@ (rmd :> cacheDir) @@ (one :> rmd)
MCHome == (entryA :> one) @@ (entryOne :> rmd)
MCAllHome == (entryA :> one) @@ (entryB :> one) @@ (entryOne :> rmd)
MCUnder == (cacheDir :> MCDirs) @@ (rmd :> {rmd, one}) @@ (one :> {one})

MCPrefixes == {"rmd", "rmd:1"}
MCTop == ("rmd" :> rmd) @@ ("rmd:1" :> one)
MCLeaf == ("rmd" :> none) @@ ("rmd:1" :> entryOne)

ASSUME MCTreeAssumption == DirsAreATree
=============================================================================
