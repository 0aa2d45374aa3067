---------------------------- MODULE MCSubscriber ----------------------------
EXTENDS Subscriber

UserSymmetry == Permutations(Users)
=============================================================================
