SPECIFICATION Spec
CONSTANTS
  Orders = {3, 4, 7}
  MixedOrders = {3}
  MaxMixed = 24
  MaxObjects = 200
VIEW AddressFree
INVARIANTS HoldsItsObjects WellFormed RanksAgree
