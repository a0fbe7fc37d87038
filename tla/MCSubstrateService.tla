------------------------- MODULE MCSubstrateService -------------------------
(* Tags for SubstrateService.                                              *)
EXTENDS SubstrateService

\* Names and ids that stay apart, and names that the slug folds together
\* ("Evo X" and "evo-x", or two that differ after the 60th character).
MCSlugApart == [rom \in Roms |-> rom]
MCSlugFolded == [rom \in Roms |-> rom[2]]
=============================================================================
