---------------------------- MODULE Configuration ----------------------------
(***************************************************************************)
(* What becomes of a configuration: its validation (config.py), the choice *)
(* of the encryption backend, and the compressor and encryptor that the    *)
(* storage backend builds from it, unless there is a backend for the same  *)
(* database already.  An encryption key is what its text looks like, and   *)
(* whether the text is a path to a file that holds it.                     *)
(***************************************************************************)
EXTENDS Optional, Naturals, Sequences

(* An exception *)
Refused == "refused"

Levels(algorithm) ==
    CASE algorithm = "zstd" -> 1..22
      [] algorithm = "gzip" -> 1..9
      [] OTHER -> Nat

(* _detect_encryption_backend: the file is read, then the text decides; *)
(* a text it does not know is a ValueError.                               *)
Detected(key) ==
    CASE key.looks \in {"age_public", "age_private"} -> "age"
      [] key.looks = "arn:aws:kms:" -> "aws-kms"
      [] key.looks = "projects/../cryptoKeys/" -> "gcp-kms"
      [] key.looks = "https://..vault.azure.net" -> "azure-keyvault"
      [] key.looks = "secret/" -> "vault"
      [] OTHER -> None

(* __post_init__: anything else is a ValueError *)
Valid(cfg) ==
    /\ cfg.encryption_enabled =>
           /\ cfg.encryption_key # None
           /\ cfg.encryption_backend # None \/ Detected(cfg.encryption_key) # None
    /\ cfg.compression_enabled =>
           /\ cfg.compression_algorithm \in {"zstd", "gzip", "none"}
           /\ cfg.compression_level \in Levels(cfg.compression_algorithm)

(* The backend and the key after validation.  Only the detection reads a   *)
(* key from a file: with the backend given, the path itself stays the key. *)
Backend(cfg) ==
    IF cfg.encryption_backend # None THEN cfg.encryption_backend ELSE Detected(cfg.encryption_key)

KeyText(cfg) ==
    IF cfg.encryption_key.in_file /\ cfg.encryption_backend # None
    THEN "path"
    ELSE cfg.encryption_key.looks

(* Mutant of Encryption: an unknown backend goes without encryption *)
EncryptionOptional(cfg) ==
    IF ~cfg.encryption_enabled \/ Backend(cfg) # "age" THEN None
    ELSE IF KeyText(cfg) \in {"age_public", "age_private"} THEN KeyText(cfg)
    ELSE Refused

(* LanceDBBackend.__init__ and AgeEncryption.__init__: which half of the   *)
(* key pair results are encrypted under                                    *)
Encryption(cfg) ==
    IF ~cfg.encryption_enabled THEN None
    ELSE IF Backend(cfg) = "age" /\ KeyText(cfg) \in {"age_public", "age_private"}
    THEN KeyText(cfg)
    ELSE Refused

(* create_compressor and the constructors' own checks of the level *)
Compression(cfg) ==
    IF ~cfg.compression_enabled \/ cfg.compression_algorithm = "none" THEN "none"
    ELSE IF cfg.compression_algorithm \in {"zstd", "gzip"}
            /\ cfg.compression_level \in Levels(cfg.compression_algorithm)
    THEN cfg.compression_algorithm
    ELSE Refused

(* LanceDBBackend.__init__ runs to its end: _initialized becomes True *)
Initialises(cfg) ==
    Valid(cfg) /\ Encryption(cfg) # Refused /\ Compression(cfg) # Refused

(* LanceDBBackend.__new__ and the first lines of __init__: caches with the *)
(* same db_uri and dimension share a backend, and with it the serializer   *)
(* that the first configuration to initialise it has made.  What a later   *)
(* one says of encryption and compression is passed over without a word.   *)
InForce(earlier, cfg) ==
    IF earlier # None /\ Initialises(earlier) THEN earlier ELSE cfg

-----------------------------------------------------------------------------
(* context_thresholds is a list of entries, in the order of the dict: a    *)
(* key, and the value it must have or None for any; and the threshold      *)

Applies(entry, context) ==
    /\ entry.key \in DOMAIN context
    /\ entry.value # None => context[entry.key] = entry.value

(* Mutant of ThresholdFor: the last entry that applies counts *)
ThresholdForLast(thresholds, default, context) ==
    LET fit == {i \in DOMAIN thresholds : Applies(thresholds[i], context)}
    IN  IF fit = {} THEN default
        ELSE thresholds[CHOOSE i \in fit : \A j \in fit : j <= i].threshold

(* get_threshold_for_context: the first entry that applies counts *)
ThresholdFor(thresholds, default, context) ==
    LET fit == {i \in DOMAIN thresholds : Applies(thresholds[i], context)}
    IN  IF fit = {} THEN default
        ELSE thresholds[CHOOSE i \in fit : \A j \in fit : i <= j].threshold
=============================================================================
