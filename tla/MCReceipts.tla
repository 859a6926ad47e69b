----------------------------- MODULE MCReceipts -----------------------------
(* Small instances of Receipts: two messages delivered at once and read one   *)
(* after the other, and the receipt of a stranger to the conversation.       *)
EXTENDS Receipts, TLC

Envelope(d, r, m) == [delivered |-> d, read |-> r, member |-> m]

Envelopes ==
    { Envelope(2, 0, TRUE), Envelope(0, 1, TRUE), Envelope(0, 2, TRUE),
      Envelope(2, 3, FALSE) }
=============================================================================
