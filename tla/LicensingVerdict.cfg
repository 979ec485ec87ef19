SPECIFICATION Spec
CONSTANTS
  Products = {basic, pro}
  NoProduct = noProduct
  Reporters = {r1}
  Edits = {"toggle", "active", "productID"}
INVARIANT
  VerdictOfCurrentProduct
