------------------------ MODULE MCCryptoSetupChannels ------------------------
(* Instantiates CryptoSetupChannels; the perspective and the environment   *)
(* are set by each cfg.                                                    *)
EXTENDS CryptoSetupChannels
=============================================================================
