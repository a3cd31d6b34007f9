\* Words of two bits, bitsets of up to three.
CONSTANTS
  Width = 2
  MaxLen = 3
SPECIFICATION BitsetFairSpec
PROPERTY TransferReturns
