--------------------------- MODULE MCWalletStore ---------------------------
(***************************************************************************)
(* WalletStore for TLC: one name, two keys that may be generated, and a    *)
(* third in the files a user may import.                                   *)
(***************************************************************************)
EXTENDS WalletStore

CONSTANTS backup, other, secret

Backup == CreateKeystore(backup, secret, "backup")

\* The backup, and what an edit can turn it into: another address, another
\* public key, and another key under the same passphrase.
MCImportFiles ==
  LET pk == PublicKeyOf(other)
  IN  {Backup,
       [Backup EXCEPT !.address = AddressFromPublicKey(pk)],
       [Backup EXCEPT !.publicKey = pk, !.address = AddressFromPublicKey(pk)],
       [Backup EXCEPT !.encryptedPrivateKey.plain = other]}

=============================================================================
