---------------------------- MODULE MCDataPath -----------------------------
(***************************************************************************)
(* Instances of DataPath for TLC.  Contents are named by what they do:     *)
(* "text" compresses, "noise" does not.                                    *)
(***************************************************************************)
EXTENDS DataPath, TLC

ContentSize == [c \in Contents |-> IF c = "text" THEN 4 ELSE 3]
ContentZipSize == [c \in Contents |-> IF c = "text" THEN 2 ELSE 5]

Config(compression, algorithm, key, dedup) ==
    [compression |-> compression, zip_algorithm |-> "zstd", crypto |-> TRUE,
     algorithm |-> algorithm, key |-> key, dedup |-> dedup]

\* CRYPTO_KEY and no deduplication; then another algorithm, no CRYPTO_KEY, and
\* deduplication.
Environments == {Config(TRUE, "aes-gcm", "K", FALSE),
                 Config(TRUE, "chacha20poly1305", None, TRUE)}
\* ENABLE_COMPRESSION=false, the default.
CompressionOff == {Config(FALSE, "aes-gcm", "K", FALSE)}

Opts(zip, seal, algorithm, key) ==
    [compress |-> zip, encrypt |-> seal, zip_algorithm |-> algorithm, key |-> key]

\* Compressed, with a key that is named and not used; compressed and encrypted; an
\* unsupported algorithm and encryption with a registered key.
AllOptions == {Opts("yes", "unset", "gzip", None)}
              \union {Opts("unset", "no", None, k) : k \in KeyIds}
              \union {Opts("yes", "yes", "unsupported", k) : k \in KeyIds}
\* An explicit compress=true.
CompressOnly == {Opts("yes", "no", None, None)}

Header(form, first, last) == [form |-> form, first |-> first, last |-> last]
\* A start that both contents have and an end beyond them, a start just after the
\* shorter content, an end before the start, several ranges.
AllHeaders == {Header("span", 2, 9), Header("from", 3, 0), Header("span", 2, 1),
               Header("multi", 0, 0)}

Symmetry == Permutations(Objects) \union Permutations(Uploaders)
=============================================================================
